---- MODULE Spec2Model ----
(***************************************************************************)
(* A model of the evaluation harness of data-science-eval-runner:          *)
(*   - DSAgent._conversation_loop and the tool dispatch it drives          *)
(*     (src/src/ds_agent.py),                                              *)
(*   - DSAgentEvaluator._run_agent_in_container (src/src/ds_evaluator.py), *)
(*   - run_suite_evaluation and run_single_evaluation (src/src/            *)
(*     cli_runner.py) with DSAgentEvaluator.evaluate_agent under them,     *)
(*   - DSAgentEvaluator._score_agent_results with its four subscores and   *)
(*     _compare_results_to_ground_truth (src/src/ds_evaluator.py).         *)
(***************************************************************************)
EXTENDS Integers, Sequences, FiniteSets, TLC

\* ------------------------------------------------------------------ bounds
MaxIter == 2        \* max_iterations ranges over 0..MaxIter
MaxCalls == 3       \* tool_use blocks the model emits in one conversation
MaxTimeout == 3     \* config.timeout_seconds ranges over 1..MaxTimeout
MaxSuite == 2       \* a suite lists at most MaxSuite problem ids

\* ------------------------------------------------------------------ state
VARIABLES
    max_iterations, \* parameter of _conversation_loop
    conn,           \* DSAgent.conn is not None (duckdb.connect succeeded)
    messages,       \* the transcript: the list `messages`
    rangeNext,      \* next value the iterator of range(max_iterations) yields
    iteration,      \* the loop variable `iteration`; Unbound before the first pass
    pc,             \* position of the coroutine: "request", "exec", "returned", "raised"
    tool_calls,     \* the list _extract_tool_calls returned for the current turn
    results,        \* the list `results` of _execute_tool_calls
    result,         \* the dict _conversation_loop returned
    tables,         \* tables of the DuckDB database behind conn
    files,          \* paths of the files written so far
    nRequests,      \* history: number of calls of _call_claude
    execLog,        \* history: one entry per dispatched tool call, in time order
    \* ---- _run_agent_in_container
    timeout_seconds, \* config.timeout_seconds
    cpc,            \* position: "pending", "wait", "logs", "except", "done"
    container,      \* the container: "none", "running", "exited", "killed", "removed"
    status,         \* StatusCode the container exited with; NoStatus while it runs
    clock,          \* seconds waited in container.wait
    exit_code,      \* the value container.wait returned
    caught,         \* the exception the inner except clause caught
    cresult,        \* the dict _run_agent_in_container returned
    nRuns,          \* history: calls of containers.run that started a container
    nWaits,         \* history: calls of container.wait
    nKills,         \* history: calls of container.kill
    \* ---- run_suite_evaluation, run_single_evaluation, evaluate_agent
    problems,       \* ids of the problem catalog `problems`
    suite_problems, \* the list `suite_problems`
    sindex,         \* index in suite_problems of the problem the for loop is at
    suite_results,  \* the list `results` of run_suite_evaluation
    spc,            \* position of the suite run
    evaluation_configs, \* keys of evaluator.evaluation_configs
    config,         \* the EvaluationConfig of the problem
    cwd,            \* the current directory of the process: "orig" or "workdir"
    temp_dir,       \* the temporary directory: "none", "exists", "removed"
    workdir_files,  \* the names of the files of the working directory
    elapsed,        \* seconds since start_time of evaluate_agent
    agent_result,   \* the dict _run_agent_locally returned
    eresult,        \* the EvaluationResult run_single_evaluation is about to return
    trace,          \* history: the calls made on evaluators, in time order
    steps,          \* history: the steps of the current evaluate_agent call, in time order
    \* ---- _score_agent_results and _compare_results_to_ground_truth
    agent_results,  \* the parsed content of analysis_results.json
    ground_truth,   \* the ground_truth dict of the problem; {} when it has none
    comparison,     \* what _compare_results_to_ground_truth returned or raised
    cmpc,           \* position of the comparison: "call", "done"
    analysis_file,  \* analysis_results.json: "absent", "unparsable", "parsed"
    created_files,  \* the files of the working directory, with what they contain
    agent_output,   \* the keyword groups found in the agent's output
    fault,          \* the subscore computation that raises, or "none"
    weights,        \* the four weights a ScoringRubric is constructed with
    rubric,         \* the ScoringRubric of the problem
    subscores,      \* the dict `subscores` of _score_agent_results
    score_result,   \* what _score_agent_results returned
    scpc,           \* position of _score_agent_results
    \* ---- the grade_problem tools and Grade.score
    current_problem,\* the module global current_problem: an id, or "None"
    grade_tool,     \* the module whose grade_problem is called, or "Grade"
    grade_call,     \* the arguments and the environment of the call
    grade,          \* the Grade that was returned or constructed
    grade_score,    \* what reading Grade.score gave
    gpc,            \* position: "call", "graded", "raised", "scored"
    \* ---- get_evaluation_summary
    summary_results,\* the list of EvaluationResults that is summarised
    summary,        \* the dict returned, as a set of <<key, value>> pairs
    smpc,           \* position: "call", "returned"
    \* ---- two evaluate_agent calls in one process
    proc_cwd,       \* the current directory of the process
    dirs,           \* the directories that exist
    dir_files,      \* the files that exist: records of dir, name and writer
    run_pc,         \* position of each call
    run_original_cwd, \* the local original_cwd of each call
    run_writes,     \* the file-writing tool calls each agent has made
    run_ok,         \* result["success"] of each _run_agent_locally
    run_scored,     \* the files each call was scored on
    write_log,      \* history: the run, the tool and the directory of each write
    \* ---- the path of one write_file call
    wpath,          \* the path argument: whether it is absolute, and its segments
    wpermitted,     \* whether the process may write outside the temporary directory
    wtarget,        \* what the call did: an error, or the location of the file
    wpc,            \* position: "call", "returned"
    \* ---- the problems of one DSAgentEvaluator
    life_configs,   \* evaluation_configs: pairs of a problem id and its database_path
    life_rubrics,   \* the keys of scoring_rubrics
    life_files,     \* the database paths at which a file exists
    life_open,      \* history: the ids whose last setup or cleanup call was a setup
    life_last,      \* history: the last call, its result and the state before it
    life_calls,     \* the number of calls made
    \* ---- two evaluation runs of one agent, one after the other
    rep_script,     \* the tool calls of the agent's turns, the same in both runs
    rep_outside,    \* the files that exist outside the temporary directories
    rep_inside,     \* the files of the temporary directory of the current run
    rep_run,        \* the run that is under way: 1 or 2
    rep_step,       \* the tool calls of the script that the run has executed
    rep_pc,         \* position: "setup", "agent", "score", "done"
    rep_outcome,    \* what each run returned; NoResult before
    \* ---- the calls made on one taiga MCP server
    sess_tool,      \* the module that serves the calls
    sess_current,   \* the module global current_problem: an id, or "None"
    sess_first,     \* history: the id of the first call whose id the module knows
    sess_last,      \* history: the last call, and current_problem before it
    sess_calls      \* the number of calls made

loopVars == <<max_iterations, conn, messages, rangeNext, iteration, pc,
              tool_calls, results, result, tables, files, nRequests, execLog>>

containerVars == <<timeout_seconds, cpc, container, status, clock, exit_code, caught,
                   cresult, nRuns, nWaits, nKills>>

suiteVars == <<problems, suite_problems, sindex, suite_results, spc, evaluation_configs,
               config, cwd, temp_dir, workdir_files, elapsed, agent_result, eresult, trace,
               steps>>

scoreVars == <<agent_results, ground_truth, comparison, cmpc, analysis_file,
               created_files, agent_output, fault, weights, rubric, subscores, score_result, scpc>>

gradeVars == <<current_problem, grade_tool, grade_call, grade, grade_score, gpc>>

summaryVars == <<summary_results, summary, smpc>>

runVars == <<proc_cwd, dirs, dir_files, run_pc, run_original_cwd, run_writes, run_ok,
             run_scored, write_log>>

writeVars == <<wpath, wpermitted, wtarget, wpc>>

lifeVars == <<life_configs, life_rubrics, life_files, life_open, life_last, life_calls>>

repVars == <<rep_script, rep_outside, rep_inside, rep_run, rep_step, rep_pc, rep_outcome>>

sessVars == <<sess_tool, sess_current, sess_first, sess_last, sess_calls>>

vars == <<loopVars, containerVars, suiteVars, scoreVars, gradeVars, summaryVars, runVars,
          writeVars, lifeVars, repVars, sessVars>>

\* what the steps of one component leave alone
notLoopVars == <<containerVars, suiteVars, scoreVars, gradeVars, summaryVars, runVars, writeVars, lifeVars,
    repVars, sessVars>>
notContainerVars == <<loopVars, suiteVars, scoreVars, gradeVars, summaryVars, runVars, writeVars, lifeVars,
    repVars, sessVars>>
notSuiteVars == <<loopVars, containerVars, scoreVars, gradeVars, summaryVars, runVars, writeVars, lifeVars,
    repVars, sessVars>>
notScoreVars == <<loopVars, containerVars, suiteVars, gradeVars, summaryVars, runVars, writeVars, lifeVars,
    repVars, sessVars>>
notGradeVars == <<loopVars, containerVars, suiteVars, scoreVars, summaryVars, runVars, writeVars, lifeVars,
    repVars, sessVars>>
notSummaryVars == <<loopVars, containerVars, suiteVars, scoreVars, gradeVars, runVars, writeVars, lifeVars,
    repVars, sessVars>>
notRunVars == <<loopVars, containerVars, suiteVars, scoreVars, gradeVars, summaryVars,
               writeVars, lifeVars, repVars, sessVars>>
notWriteVars == <<loopVars, containerVars, suiteVars, scoreVars, gradeVars, summaryVars,
                 runVars, lifeVars, repVars, sessVars>>
notLifeVars == <<loopVars, containerVars, suiteVars, scoreVars, gradeVars, summaryVars,
                runVars, writeVars, repVars, sessVars>>
notRepVars == <<loopVars, containerVars, suiteVars, scoreVars, gradeVars, summaryVars,
               runVars, writeVars, lifeVars, sessVars>>
notSessVars == <<loopVars, containerVars, suiteVars, scoreVars, gradeVars, summaryVars,
                runVars, writeVars, lifeVars, repVars>>

Unbound == -1       \* the value of `iteration` while the name is not bound
NoResult == [returned |-> FALSE]

\* ------------------------------------------------------------ sequences
Last(s) == s[Len(s)]

IsPrefix(s, t) == Len(s) <= Len(t) /\ \A i \in 1..Len(s) : s[i] = t[i]

SeqsUpTo(S, n) == UNION {[1..k -> S] : k \in 0..n}

RECURSIVE SelectBlocks(_, _)
SelectBlocks(blocks, type) ==
    IF blocks = <<>> THEN <<>>
    ELSE IF Head(blocks).type = type
         THEN <<Head(blocks)>> \o SelectBlocks(Tail(blocks), type)
         ELSE SelectBlocks(Tail(blocks), type)

\* --------------------------------------------------------- tool inputs
\* A tool input is a mapping, modelled as a set of <<key, value>> pairs.
Has(input, key) == \E p \in input : p[1] = key
Get(input, key) == (CHOOSE p \in input : p[1] = key)[2]

\* The tool_use blocks the modelled model draws its turns from.
\* A path is <<prefix, rest>>: the text before the file name and the name.
EmittedCalls ==
    { [name |-> "write_file",
       input |-> {<<"path", <<"", "a.txt">> >>, <<"content", "x">>}],
      [name |-> "write_file", input |-> {<<"path", <<"", "a.txt">> >>}],
      [name |-> "execute_sql", input |-> {<<"query", <<"CREATE TABLE", "t">> >>}],
      [name |-> "read_table", input |-> {<<"table_name", "t">>}],
      [name |-> "submit_analysis", input |-> {<<"analysis_results", "r">>}],
      [name |-> "bogus", input |-> {}] }

\* The id the model gives the p-th tool_use block of its n-th turn: opaque,
\* unique, and unrelated to the block's position in the turn.
ToolUseId(n, p) == 100 * n + (MaxCalls + 1 - p)

\* the turn a tool_use id was emitted in
TurnOfId(id) == id \div 100

TextBlock == [type |-> "text", text |-> "t"]

ToolUseBlock(c, n, p) ==
    [type |-> "tool_use", id |-> ToolUseId(n, p), name |-> c.name, input |-> c.input]

\* response.content of the n-th model turn emitting the calls cs
ResponseContent(cs, n) ==
    <<TextBlock>> \o [p \in 1..Len(cs) |-> ToolUseBlock(cs[p], n, p)]

InitialMessages == << [role |-> "user", content |-> <<[type |-> "text", text |-> "Problem"]>>] >>

\* ------------------------------------------------------------ ToolResult
None == <<>>      \* Python's None where a text is expected

ToolResult(output, error) == [output |-> output, error |-> error]

\* the environment a tool handler reads and writes
Env(tbls, fls) == [tables |-> tbls, files |-> fls]

\* what a handler call leaves behind: its return value (or the exception it
\* raised) and the environment after it
Returned(res, env) == [raised |-> FALSE, res |-> res, exc |-> None, env |-> env]
Raised(exc, env) == [raised |-> TRUE, res |-> None, exc |-> exc, env |-> env]

\* ------------------------------------------------------------- handlers
SafePrefixes == {"./", "workdir/", "./workdir/"}

\* write_file: a path outside the safe prefixes is moved under ./workdir/
NormalisePath(path) ==
    IF path[1] \in SafePrefixes THEN path ELSE <<"./workdir/", path[2]>>

write_file(path, content, env, ioOk) ==
    IF ioOk
    THEN Returned(ToolResult(<<"File written successfully to", NormalisePath(path)>>, None),
                  Env(env.tables, env.files \cup {NormalisePath(path)}))
    ELSE Returned(ToolResult(None, <<"Failed to write file">>), env)

list_tables(env, connected) ==
    IF ~connected
    THEN Returned(ToolResult(None, <<"Database connection not available">>), env)
    ELSE IF env.tables = {}
         THEN Returned(ToolResult(<<"No tables found in database">>, None), env)
         ELSE Returned(ToolResult(<<"Available tables">>, None), env)

describe_table(table_name, env, connected) ==
    IF ~connected
    THEN Returned(ToolResult(None, <<"Database connection not available">>), env)
    ELSE IF table_name \in env.tables
         THEN Returned(ToolResult(<<"Table", table_name>>, None), env)
         ELSE Returned(ToolResult(None, <<"Failed to describe table", table_name>>), env)

read_table(table_name, limit, env, connected) ==
    IF ~connected
    THEN Returned(ToolResult(None, <<"Database connection not available">>), env)
    ELSE IF table_name \in env.tables
         THEN Returned(ToolResult(<<"Data from", table_name, limit>>, None), env)
         ELSE Returned(ToolResult(None, <<"Failed to read table", table_name>>), env)

\* a query is <<verb, table>>
execute_sql(query, env, connected) ==
    IF ~connected
    THEN Returned(ToolResult(None, <<"Database connection not available">>), env)
    ELSE IF query[1] = "CREATE TABLE" /\ query[2] \notin env.tables
         THEN Returned(ToolResult(<<"Query executed successfully", query>>, None),
                       Env(env.tables \cup {query[2]}, env.files))
         ELSE IF query[1] = "SELECT" /\ query[2] \in env.tables
              THEN Returned(ToolResult(<<"Query executed successfully", query>>, None), env)
              ELSE Returned(ToolResult(None, <<"Failed to execute query">>), env)

ResultsPath == <<"", "analysis_results.json">>

submit_analysis(analysis_results, env, ioOk) ==
    IF ioOk
    THEN Returned(ToolResult(<<"Analysis Results Submitted", analysis_results>>, None),
                  Env(env.tables, env.files \cup {ResultsPath}))
    ELSE Returned(ToolResult(None, <<"Failed to submit analysis">>), env)

\* ------------------------------------------------------------- dispatch
\* tool_input[key] of a missing key raises KeyError before the handler runs
KeyError(key) == <<"KeyError", key>>

\* the if/elif chain of _execute_tool_calls
Dispatch(call, env, connected, ioOk) ==
    LET in == call.input IN
    CASE call.name = "write_file" ->
           IF ~Has(in, "path") THEN Raised(KeyError("path"), env)
           ELSE IF ~Has(in, "content") THEN Raised(KeyError("content"), env)
           ELSE write_file(Get(in, "path"), Get(in, "content"), env, ioOk)
      [] call.name = "list_tables" -> list_tables(env, connected)
      [] call.name = "describe_table" ->
           IF ~Has(in, "table_name") THEN Raised(KeyError("table_name"), env)
           ELSE describe_table(Get(in, "table_name"), env, connected)
      [] call.name = "read_table" ->
           IF ~Has(in, "table_name") THEN Raised(KeyError("table_name"), env)
           ELSE read_table(Get(in, "table_name"),
                           IF Has(in, "limit") THEN <<Get(in, "limit")>> ELSE None,
                           env, connected)
      [] call.name = "execute_sql" ->
           IF ~Has(in, "query") THEN Raised(KeyError("query"), env)
           ELSE execute_sql(Get(in, "query"), env, connected)
      [] call.name = "submit_analysis" ->
           IF ~Has(in, "analysis_results") THEN Raised(KeyError("analysis_results"), env)
           ELSE submit_analysis(Get(in, "analysis_results"), env, ioOk)
      [] OTHER -> Returned(ToolResult(None, <<"Unknown tool", call.name>>), env)

\* "Format result for message"
FormatResult(res) ==
    IF res.error # None
    THEN [kind |-> "Error", text |-> res.error]
    ELSE [kind |-> "Output",
          text |-> IF res.output # None THEN res.output ELSE <<"Tool executed successfully">>]

\* the try/except around one dispatch: what is appended to `results`; an
\* outcome that still has raised = TRUE leaves _execute_tool_calls as an exception
ToolTryExcept_Propagates(out) ==
    IF out.raised
    THEN [raised |-> TRUE, text |-> [kind |-> "Tool execution error", text |-> out.exc],
          exc |-> out.exc]
    ELSE [raised |-> FALSE, text |-> FormatResult(out.res), exc |-> None]

ToolTryExcept(out) ==
    IF out.raised
    THEN [raised |-> FALSE, text |-> [kind |-> "Tool execution error", text |-> out.exc],
          exc |-> None]
    ELSE [raised |-> FALSE, text |-> FormatResult(out.res), exc |-> None]

\* the tool call the for loop of _execute_tool_calls handles next
NextCallIndex_Reversed(calls, done) == Len(calls) - Len(done)

NextCallIndex(calls, done) == Len(done) + 1

\* _extract_tool_calls
ExtractToolCalls(content) ==
    LET uses == SelectBlocks(content, "tool_use")
    IN  [i \in 1..Len(uses) |->
            [id |-> uses[i].id, name |-> uses[i].name, input |-> uses[i].input]]

\* "Add tool results to messages in proper format"
ToolResultContent_FirstId(calls, rs) ==
    [i \in 1..Len(rs) |->
        [type |-> "tool_result", tool_use_id |-> calls[1].id, content |-> rs[i]]]

ToolResultContent(calls, rs) ==
    LET idx == {i \in 1..Len(rs) : i <= Len(calls)}
    IN  [i \in 1..Cardinality(idx) |->
            [type |-> "tool_result", tool_use_id |-> calls[i].id, content |-> rs[i]]]

\* ------------------------------------------------------- loop control
\* range(max_iterations) still has a value to yield
InRange(next, max) == next < max

\* the value range(max_iterations) yields after `next`
RangeStuck(next) == next

RangeAdvance(next) == next + 1

\* messages.append(turn)
ReplaceLastTurn(msgs, turn) == [msgs EXCEPT ![Len(msgs)] = turn]

AppendTurn(msgs, turn) == Append(msgs, turn)

\* "Check if we should continue": the pass was the last allowed one
IsLastIteration(it, max) == it = max - 1

\* the dict returned after the for loop
SuccessResult(msgs, it) ==
    [success |-> TRUE, messages |-> msgs, iterations |-> it + 1,
     final_response |-> IF msgs # <<>> THEN Last(msgs).content ELSE <<>>]

\* the except clause of the loop body: where the coroutine goes and what it returns
OnIterationException_Retry(e, msgs, it) == [pc |-> "request", result |-> NoResult]

OnIterationException(e, msgs, it) ==
    [pc |-> "returned",
     result |-> [success |-> FALSE, error |-> e, messages |-> msgs, iterations |-> it + 1]]

\* the break of a turn without tool calls
OnNoToolCalls_Continue(msgs, it) == [pc |-> "request", result |-> NoResult]

OnNoToolCalls(msgs, it) == [pc |-> "returned", result |-> SuccessResult(msgs, it)]

\* the end of a pass that executed tool calls
OnTurnExecuted(msgs, it, max, calls) ==
    IF IsLastIteration(it, max)
    THEN [pc |-> "returned", result |-> SuccessResult(msgs, it)]
    ELSE [pc |-> "request", result |-> NoResult]

\* ------------------------------------------------------------ actions
LoopInit ==
    /\ max_iterations \in 0..MaxIter
    /\ conn \in BOOLEAN
    /\ messages = InitialMessages
    /\ rangeNext = 0
    /\ iteration = Unbound
    /\ pc = "request"
    /\ tool_calls = <<>>
    /\ results = <<>>
    /\ result = NoResult
    /\ tables = {}
    /\ files = {}
    /\ nRequests = 0
    /\ execLog = <<>>

\* One pass of the loop up to the tool execution: the model answers with a
\* turn holding the calls cs; the turn is appended and its calls extracted.
ModelResponds ==
    /\ UNCHANGED notLoopVars
    /\ pc = "request"
    /\ InRange(rangeNext, max_iterations)
    /\ \E cs \in SeqsUpTo(EmittedCalls, MaxCalls - Len(execLog)) :
         LET content == ResponseContent(cs, nRequests + 1)
             msgs == AppendTurn(messages, [role |-> "assistant", content |-> content])
             calls == ExtractToolCalls(content)
             next == OnNoToolCalls(msgs, rangeNext)
         IN  /\ messages' = msgs
             /\ tool_calls' = calls
             /\ results' = <<>>
             /\ IF calls = <<>>
                THEN pc' = next.pc /\ result' = next.result
                ELSE pc' = "exec" /\ result' = result
    /\ iteration' = rangeNext
    /\ rangeNext' = RangeAdvance(rangeNext)
    /\ nRequests' = nRequests + 1
    /\ UNCHANGED <<max_iterations, conn, tables, files, execLog>>

\* _call_claude raises: the except clause returns the failure.
ModelRaises ==
    /\ UNCHANGED notLoopVars
    /\ pc = "request"
    /\ InRange(rangeNext, max_iterations)
    /\ LET next == OnIterationException(<<"Claude API call failed">>, messages, rangeNext)
       IN  pc' = next.pc /\ result' = next.result
    /\ iteration' = rangeNext
    /\ rangeNext' = RangeAdvance(rangeNext)
    /\ nRequests' = nRequests + 1
    /\ UNCHANGED <<max_iterations, conn, messages, tool_calls, results, tables, files, execLog>>

\* range(max_iterations) is exhausted at the top of the loop: the return after
\* the loop reads `iteration`, which is unbound when no pass ran.
LoopFallsThrough ==
    /\ UNCHANGED notLoopVars
    /\ pc = "request"
    /\ ~InRange(rangeNext, max_iterations)
    /\ IF iteration = Unbound
       THEN pc' = "raised" /\ result' = result
       ELSE pc' = "returned" /\ result' = SuccessResult(messages, iteration)
    /\ UNCHANGED <<max_iterations, conn, messages, rangeNext, iteration, tool_calls,
                   results, tables, files, nRequests, execLog>>

\* One pass of the for loop of _execute_tool_calls.
ExecuteToolCall ==
    /\ UNCHANGED notLoopVars
    /\ pc = "exec"
    /\ Len(results) < Len(tool_calls)
    /\ \E ioOk \in BOOLEAN :
         LET k == NextCallIndex(tool_calls, results)
             call == tool_calls[k]
             out == Dispatch(call, Env(tables, files), conn, ioOk)
             got == ToolTryExcept(out)
             next == OnIterationException(got.exc, messages, iteration)
         IN  /\ tables' = out.env.tables
             /\ files' = out.env.files
             /\ execLog' = Append(execLog, [id |-> call.id, name |-> call.name,
                                            text |-> got.text,
                                            sawTables |-> tables, sawFiles |-> files,
                                            turn |-> nRequests])
             /\ IF got.raised
                THEN pc' = next.pc /\ result' = next.result /\ results' = results
                ELSE pc' = pc /\ result' = result /\ results' = Append(results, got.text)
    /\ UNCHANGED <<max_iterations, conn, messages, rangeNext, iteration, tool_calls, nRequests>>

\* _execute_tool_calls returned: the tool-result turn is appended and the
\* loop continues or stops.
FinishTurn ==
    /\ UNCHANGED notLoopVars
    /\ pc = "exec"
    /\ Len(results) = Len(tool_calls)
    /\ LET content == ToolResultContent(tool_calls, results)
           msgs == IF content # <<>>
                   THEN AppendTurn(messages, [role |-> "user", content |-> content])
                   ELSE messages
           next == OnTurnExecuted(msgs, iteration, max_iterations, tool_calls)
       IN  /\ messages' = msgs
           /\ pc' = next.pc
           /\ result' = next.result
    /\ UNCHANGED <<max_iterations, conn, rangeNext, iteration, tool_calls, results,
                   tables, files, nRequests, execLog>>

LoopNext ==
    \/ ModelResponds
    \/ ModelRaises
    \/ LoopFallsThrough
    \/ ExecuteToolCall
    \/ FinishTurn

\* ------------------------------------------------ _run_agent_in_container
NoStatus == -1      \* no StatusCode yet

\* the exit statuses of the modelled agent process: clean exit, error, and
\* 137, the status of a process the runtime killed (out of memory, kill)
ExitStatuses == {0, 1, 137}

\* str(e) of what container.wait raises when its timeout expires
ReadTimedOut == <<"Read timed out">>
ApiError == <<"APIError">>
NotFound == <<"404 Not Found">>

\* a result that ignores the exit status
ContainerResult_IgnoresStatus(code, logs) ==
    [success |-> TRUE, output |-> logs, error |-> None]

\* the dict returned after wait and logs succeeded
ContainerResult(code, logs) ==
    [success |-> code = 0, output |-> logs,
     error |-> IF code = 0 THEN None ELSE <<"Exit code", code>>]

\* the dict the inner except clause returns
ContainerFailure(e) ==
    [success |-> FALSE, output |-> None, error |-> <<"Container execution failed">> \o e]

\* the dict the outer except clause returns
StartFailure(e) ==
    [success |-> FALSE, output |-> None, error |-> <<"Failed to start container">> \o e]

\* container.kill(): the daemon stops a running container when it handles
\* the request (daemonOk); the call raises when the daemon fails or the
\* container is not running, and the caller ignores that
Kill(state, daemonOk) ==
    IF state = "running" /\ daemonOk THEN "killed" ELSE state

ContainerInit ==
    /\ timeout_seconds \in 1..MaxTimeout
    /\ cpc = "pending"
    /\ container = "none"
    /\ status = NoStatus
    /\ clock = 0
    /\ exit_code = NoStatus
    /\ caught = None
    /\ cresult = NoResult
    /\ nRuns = 0
    /\ nWaits = 0
    /\ nKills = 0

\* docker_client.containers.run(..., detach=True, remove=True), then the call
\* of container.wait; a failure to start is returned by the outer except.
RunContainer ==
    /\ UNCHANGED notContainerVars
    /\ cpc = "pending"
    /\ \E started \in BOOLEAN :
         IF started
         THEN /\ container' = "running"
              /\ nRuns' = nRuns + 1
              /\ nWaits' = nWaits + 1
              /\ cpc' = "wait"
              /\ cresult' = cresult
         ELSE /\ cpc' = "done"
              /\ cresult' = StartFailure(ApiError)
              /\ UNCHANGED <<container, nRuns, nWaits>>
    /\ UNCHANGED <<timeout_seconds, status, clock, exit_code, caught, nKills>>

\* the agent process ends by itself
ContainerExits ==
    /\ UNCHANGED notContainerVars
    /\ container = "running"
    /\ \E code \in ExitStatuses : status' = code
    /\ container' = "exited"
    /\ UNCHANGED <<timeout_seconds, cpc, clock, exit_code, caught, cresult, nRuns, nWaits, nKills>>

\* remove=True: the daemon removes the container once it has stopped
ContainerRemoved ==
    /\ UNCHANGED notContainerVars
    /\ container \in {"exited", "killed"}
    /\ container' = "removed"
    /\ UNCHANGED <<timeout_seconds, cpc, status, clock, exit_code, caught, cresult,
                   nRuns, nWaits, nKills>>

\* a second passes while container.wait blocks
Tick ==
    /\ UNCHANGED notContainerVars
    /\ cpc = "wait"
    /\ clock < timeout_seconds
    /\ clock' = clock + 1
    /\ UNCHANGED <<timeout_seconds, cpc, container, status, exit_code, caught, cresult,
                   nRuns, nWaits, nKills>>

\* container.wait returns the exit status
WaitReturns ==
    /\ UNCHANGED notContainerVars
    /\ cpc = "wait"
    /\ status # NoStatus
    /\ exit_code' = status
    /\ cpc' = "logs"
    /\ UNCHANGED <<timeout_seconds, container, status, clock, caught, cresult,
                   nRuns, nWaits, nKills>>

\* container.wait raises: its timeout expired
WaitTimesOut ==
    /\ UNCHANGED notContainerVars
    /\ cpc = "wait"
    /\ clock = timeout_seconds
    /\ caught' = ReadTimedOut
    /\ cpc' = "except"
    /\ UNCHANGED <<timeout_seconds, container, status, clock, exit_code, cresult,
                   nRuns, nWaits, nKills>>

\* container.wait raises for another reason (the daemon fails)
WaitFails ==
    /\ UNCHANGED notContainerVars
    /\ cpc = "wait"
    /\ caught' = ApiError
    /\ cpc' = "except"
    /\ UNCHANGED <<timeout_seconds, container, status, clock, exit_code, cresult,
                   nRuns, nWaits, nKills>>

\* container.logs() and the return; the logs of a container the daemon
\* already removed cannot be read
ReadLogs ==
    /\ UNCHANGED notContainerVars
    /\ cpc = "logs"
    /\ IF container = "removed"
       THEN /\ caught' = NotFound
            /\ cpc' = "except"
            /\ cresult' = cresult
       ELSE /\ cresult' = ContainerResult(exit_code, <<"logs">>)
            /\ cpc' = "done"
            /\ caught' = caught
    /\ UNCHANGED <<timeout_seconds, container, status, clock, exit_code, nRuns, nWaits, nKills>>

\* the inner except clause: container.kill() with its failure ignored, and the return
KillAndReturn ==
    /\ UNCHANGED notContainerVars
    /\ cpc = "except"
    /\ \E daemonOk \in BOOLEAN : container' = Kill(container, daemonOk)
    /\ nKills' = nKills + 1
    /\ cresult' = ContainerFailure(caught)
    /\ cpc' = "done"
    /\ UNCHANGED <<timeout_seconds, status, clock, exit_code, caught, nRuns, nWaits>>

ContainerNext ==
    \/ RunContainer
    \/ ContainerExits
    \/ ContainerRemoved
    \/ Tick
    \/ WaitReturns
    \/ WaitTimesOut
    \/ WaitFails
    \/ ReadLogs
    \/ KillAndReturn

\* ------------------------- cli_runner.py and DSAgentEvaluator.evaluate_agent
\* 1.0 as a score; a score x is held as the integer x * ScoreUnit
ScoreUnit == 5040000

\* the catalog of problems, and the ids a suite may list: "px" is an id of
\* the configuration's suite that the catalog does not hold
Catalog == {"p1", "p2"}
SuiteIds == Catalog \cup {"px"}

\* subscores are sets of <<category, score>> pairs; {} is the empty dict
Categories == {"correctness", "methodology", "code_quality", "completeness"}

\* a list is held as the one-element tuple of the set of its items, which
\* keeps the empty list apart from None
ListOf(items) == <<items>>

EvaluationResult(problem_id, success, score, subs, error_message, listed) ==
    [problem_id |-> problem_id, success |-> success, score |-> score,
     subscores |-> subs, error_message |-> error_message, created_files |-> listed]

\* run_single_evaluation's result when setup_problem returned False
SetupFailureResult(pid) ==
    EvaluationResult(pid, FALSE, 0, {}, <<"Failed to setup problem">>, None)

\* evaluate_agent's results
NotConfiguredResult(pid) ==
    EvaluationResult(pid, FALSE, 0, {}, <<"Problem", pid, "not configured">>, None)
ScoredResult(pid, scored, listed) ==
    EvaluationResult(pid, TRUE, scored.total_score, scored.subscores, None, listed)
\* a failure branch that hands on the agent's output in place of its error
AgentFailureResult_OutputForError(pid, res) ==
    EvaluationResult(pid, FALSE, 0, {}, res.output, None)
AgentFailureResult(pid, res) ==
    EvaluationResult(pid, FALSE, 0, {}, res.error, None)
ExceptionResult(pid, e) ==
    EvaluationResult(pid, FALSE, 0, {}, e, None)

\* str(e) of the exceptions of the modelled steps
OSError == <<"OSError">>
DatabaseError == <<"duckdb.Error">>
MissingApiKey == <<"ANTHROPIC_API_KEY environment variable is required">>
PrintTypeError == <<"'exc_info' is an invalid keyword argument for print()">>

\* what agent.run_agent does: it returns the dict of the conversation loop
\* (success with a final response, or failure with an error) or raises
AgentOutcomes ==
    { [raised |-> FALSE, exc |-> None,
       res |-> [success |-> TRUE, final_response |-> <<"done">>, error |-> None]],
      [raised |-> FALSE, exc |-> None,
       res |-> [success |-> FALSE, final_response |-> None,
                error |-> <<"Claude API call failed">>]],
      [raised |-> TRUE, exc |-> MissingApiKey, res |-> None] }

\* the files an agent may leave in the working directory, hidden ones
\* included, whether it succeeds or fails
AgentWrites == {{}, {"analysis.py"}, {"analysis.py", ".notes"}}

\* item.name.startswith(".")
IsHidden(name) == name \in {".notes"}

\* _list_created_files: the non-hidden files of the working directory
list_created_files(present) == ListOf({name \in present : ~IsHidden(name)})

\* the dicts _run_agent_locally returns
LocalResult(res) ==
    [success |-> res.success, output |-> res.final_response, error |-> res.error]
LocalFailure(e) ==
    [success |-> FALSE, output |-> None, error |-> <<"Local execution failed">> \o e]

\* what _score_agent_results does under evaluate_agent: it returns a score
\* dict or raises
ZeroSubscores == {<<c, 0>> : c \in Categories}
ScoringOutcomes ==
    { [raised |-> FALSE, exc |-> None,
       res |-> [total_score |-> 0, subscores |-> ZeroSubscores]],
      [raised |-> FALSE, exc |-> None,
       res |-> [total_score |-> ScoreUnit,
                subscores |-> {<<c, ScoreUnit>> : c \in Categories}]],
      [raised |-> FALSE, exc |-> None,
       res |-> [total_score |-> (ScoreUnit * 40) \div 100,
                subscores |-> {<<c, IF c = "correctness" THEN ScoreUnit ELSE 0>> :
                                  c \in Categories}]],
      [raised |-> TRUE, exc |-> PrintTypeError, res |-> None] }

\* an evaluate_agent without its except clause
OnEvaluateException_Propagates(pid, e) == [spc |-> "raised", eresult |-> NoResult]

\* the except clause of evaluate_agent
OnEvaluateException(pid, e) == [spc |-> "finally", eresult |-> ExceptionResult(pid, e)]

\* a run_single_evaluation that evaluates whatever setup_problem returned
AfterSetup_Ignored(ok, pid) == [spc |-> "evaluate", eresult |-> NoResult]

\* run_single_evaluation after setup_problem returned
AfterSetup(ok, pid) ==
    IF ok THEN [spc |-> "evaluate", eresult |-> NoResult]
    ELSE [spc |-> "append", eresult |-> SetupFailureResult(pid)]

\* a _run_agent_locally without its finally clause
RestoreCwd_Missing(original_cwd, current) == current

\* the finally clause of _run_agent_locally: os.chdir(original_cwd)
RestoreCwd(original_cwd, current) == original_cwd

\* leaving `with tempfile.TemporaryDirectory()`
ExitTempDir(state) == IF state = "exists" THEN "removed" ELSE state

\* the steps of evaluate_agent that end a call. The early return builds the
\* result and nothing else
NotConfiguredSteps == <<"result">>

\* an exception inside the with statement leaves it, which removes the
\* temporary directory, before the except clause builds the result
ExceptionSteps == <<"remove", "result">>

\* the failure branch builds the result inside the with statement
FailureSteps == <<"result", "remove">>

\* a success branch that lists the files once the with statement is left
ScoredSteps_ListAfterExit == <<"score", "result", "remove", "list">>

\* the success branch: _score_agent_results, then the EvaluationResult
\* with created_files=_list_created_files(workdir), then the return that
\* leaves the with statement
ScoredSteps == <<"score", "list", "result", "remove">>

\* an entry of the history of calls
Call(name, index, ok) == [call |-> name, index |-> index, ok |-> ok]

\* the problem the for loop is at
ProblemId == suite_problems[sindex]

SuiteInit ==
    /\ problems = Catalog
    /\ suite_problems \in SeqsUpTo(SuiteIds, MaxSuite)
    /\ sindex = 0
    /\ suite_results = <<>>
    /\ spc = "start"
    /\ evaluation_configs = {}
    /\ config \in {[timeout_seconds |-> t] : t \in 1..MaxTimeout}
    /\ cwd = "orig"
    /\ temp_dir = "none"
    /\ workdir_files = {}
    /\ elapsed = 0
    /\ agent_result = NoResult
    /\ eresult = NoResult
    /\ trace = <<>>
    /\ steps = <<>>

\* run_suite_evaluation up to the for loop: an empty suite returns []
SuiteStart ==
    /\ UNCHANGED notSuiteVars
    /\ spc = "start"
    /\ spc' = IF suite_problems = <<>> THEN "returned" ELSE "for"
    /\ UNCHANGED <<steps, problems, suite_problems, sindex, suite_results, evaluation_configs,
                   config, cwd, temp_dir, workdir_files, elapsed, agent_result, eresult, trace>>

\* the for loop is exhausted: return results
SuiteReturns ==
    /\ UNCHANGED notSuiteVars
    /\ spc = "for"
    /\ sindex = Len(suite_problems)
    /\ spc' = "returned"
    /\ UNCHANGED <<steps, problems, suite_problems, sindex, suite_results, evaluation_configs,
                   config, cwd, temp_dir, workdir_files, elapsed, agent_result, eresult, trace>>

\* the next id is not in the catalog: print and continue
SkipUnknownProblem ==
    /\ UNCHANGED notSuiteVars
    /\ spc = "for"
    /\ sindex < Len(suite_problems)
    /\ suite_problems[sindex + 1] \notin problems
    /\ sindex' = sindex + 1
    /\ UNCHANGED <<steps, problems, suite_problems, suite_results, spc, evaluation_configs,
                   config, cwd, temp_dir, workdir_files, elapsed, agent_result, eresult, trace>>

\* the next id is in the catalog: call run_single_evaluation
StartProblem ==
    /\ UNCHANGED notSuiteVars
    /\ spc = "for"
    /\ sindex < Len(suite_problems)
    /\ suite_problems[sindex + 1] \in problems
    /\ sindex' = sindex + 1
    /\ spc' = "construct"
    /\ UNCHANGED <<steps, problems, suite_problems, suite_results, evaluation_configs,
                   config, cwd, temp_dir, workdir_files, elapsed, agent_result, eresult, trace>>

\* evaluator = DSAgentEvaluator(): docker.from_env() may raise, and nothing
\* in run_single_evaluation or in the for loop catches it
ConstructEvaluator ==
    /\ UNCHANGED notSuiteVars
    /\ spc = "construct"
    /\ \E ok \in BOOLEAN : spc' = IF ok THEN "setup" ELSE "raised"
    /\ evaluation_configs' = {}
    /\ UNCHANGED <<steps, problems, suite_problems, sindex, suite_results,
                   config, cwd, temp_dir, workdir_files, elapsed, agent_result, eresult, trace>>

\* evaluator.setup_problem(problem_config): the configuration is stored
\* before the database is set up, which may fail
SetupProblem ==
    /\ UNCHANGED notSuiteVars
    /\ spc = "setup"
    /\ evaluation_configs' = evaluation_configs \cup {ProblemId}
    /\ \E ok \in BOOLEAN :
         /\ trace' = Append(trace, Call("setup_problem", sindex, ok))
         /\ spc' = AfterSetup(ok, ProblemId).spc
         /\ eresult' = AfterSetup(ok, ProblemId).eresult
    /\ UNCHANGED <<steps, problems, suite_problems, sindex, suite_results,
                   config, cwd, temp_dir, workdir_files, elapsed, agent_result>>

\* evaluate_agent up to the creation of the temporary directory
EvaluateAgent ==
    /\ UNCHANGED notSuiteVars
    /\ spc = "evaluate"
    /\ trace' = Append(trace, Call("evaluate_agent", sindex, TRUE))
    /\ elapsed' = 0
    /\ IF ProblemId \notin evaluation_configs
       THEN /\ eresult' = NotConfiguredResult(ProblemId)
            /\ spc' = "finally"
            /\ steps' = NotConfiguredSteps
            /\ temp_dir' = temp_dir /\ workdir_files' = workdir_files
       ELSE \E ok \in BOOLEAN :
              IF ok
              THEN /\ temp_dir' = "exists" /\ workdir_files' = {}
                   /\ spc' = "prepare"
                   /\ eresult' = eresult
                   /\ steps' = <<"provision">>
              ELSE /\ temp_dir' = temp_dir /\ workdir_files' = workdir_files
                   /\ spc' = OnEvaluateException(ProblemId, OSError).spc
                   /\ eresult' = OnEvaluateException(ProblemId, OSError).eresult
                   /\ steps' = <<"result">>
    /\ UNCHANGED <<problems, suite_problems, sindex, suite_results, evaluation_configs,
                   config, cwd, agent_result>>

\* workdir.mkdir and setup_database_with_mock_data; a failure leaves the
\* with statement and reaches the except clause
PrepareWorkdir ==
    /\ UNCHANGED notSuiteVars
    /\ spc = "prepare"
    /\ \E ok \in BOOLEAN :
         IF ok
         THEN /\ spc' = "chdir"
              /\ workdir_files' = {"data.db"}
              /\ steps' = Append(steps, "dataset")
              /\ UNCHANGED <<temp_dir, eresult>>
         ELSE /\ temp_dir' = ExitTempDir(temp_dir) /\ workdir_files' = {}
              /\ spc' = OnEvaluateException(ProblemId, DatabaseError).spc
              /\ eresult' = OnEvaluateException(ProblemId, DatabaseError).eresult
              /\ steps' = steps \o ExceptionSteps
    /\ UNCHANGED <<problems, suite_problems, sindex, suite_results, evaluation_configs,
                   config, cwd, elapsed, agent_result, trace>>

\* _run_agent_locally: os.getcwd() and os.chdir(workdir); a failure is
\* returned by the outer except clause
ChdirWorkdir ==
    /\ UNCHANGED notSuiteVars
    /\ spc = "chdir"
    /\ \E ok \in BOOLEAN :
         IF ok
         THEN /\ cwd' = "workdir"
              /\ spc' = "agent"
              /\ agent_result' = agent_result
              /\ steps' = Append(steps, "agent")
         ELSE /\ cwd' = cwd
              /\ spc' = "score"
              /\ agent_result' = LocalFailure(OSError)
              /\ steps' = steps
    /\ UNCHANGED <<problems, suite_problems, sindex, suite_results, evaluation_configs,
                   config, temp_dir, workdir_files, elapsed, eresult, trace>>

\* a second passes while agent.run_agent is awaited; nothing reads
\* config.timeout_seconds, the model stops counting one second past it
AgentTick ==
    /\ UNCHANGED notSuiteVars
    /\ spc = "agent"
    /\ elapsed <= config.timeout_seconds
    /\ elapsed' = elapsed + 1
    /\ UNCHANGED <<steps, problems, suite_problems, sindex, suite_results, spc, evaluation_configs,
                   config, cwd, temp_dir, workdir_files, agent_result, eresult, trace>>

\* agent.run_agent returns or raises; the finally clause restores the
\* directory and the dict is returned
AgentReturns ==
    /\ UNCHANGED notSuiteVars
    /\ spc = "agent"
    /\ \E out \in AgentOutcomes :
         agent_result' = IF out.raised THEN LocalFailure(out.exc) ELSE LocalResult(out.res)
    /\ \E written \in AgentWrites : workdir_files' = workdir_files \cup written
    /\ cwd' = RestoreCwd("orig", cwd)
    /\ spc' = "score"
    /\ UNCHANGED <<steps, problems, suite_problems, sindex, suite_results, evaluation_configs,
                   config, temp_dir, elapsed, eresult, trace>>

\* the await is cancelled or interrupted (asyncio.CancelledError,
\* KeyboardInterrupt): no `except Exception` catches it; the finally clause
\* of _run_agent_locally, the with statement and the finally clause of
\* run_single_evaluation run while it propagates out of the suite run
AgentInterrupted ==
    /\ UNCHANGED notSuiteVars
    /\ spc = "agent"
    /\ cwd' = RestoreCwd("orig", cwd)
    /\ temp_dir' = ExitTempDir(temp_dir) /\ workdir_files' = {}
    /\ trace' = Append(trace, Call("cleanup_problem", sindex, TRUE))
    /\ evaluation_configs' = evaluation_configs \ {ProblemId}
    /\ spc' = "interrupted"
    /\ steps' = Append(steps, "remove")
    /\ UNCHANGED <<problems, suite_problems, sindex, suite_results,
                   config, elapsed, agent_result, eresult>>

\* evaluate_agent after _run_agent_locally returned: the scoring of a
\* successful run, or the failure result; leaving the with statement
ScoreAndReturn ==
    /\ UNCHANGED notSuiteVars
    /\ spc = "score"
    /\ temp_dir' = ExitTempDir(temp_dir) /\ workdir_files' = {}
    /\ IF agent_result.success
       THEN \E o \in ScoringOutcomes :
              IF o.raised
              THEN /\ spc' = OnEvaluateException(ProblemId, o.exc).spc
                   /\ eresult' = OnEvaluateException(ProblemId, o.exc).eresult
                   /\ steps' = Append(steps, "score") \o ExceptionSteps
              ELSE /\ spc' = "finally"
                   /\ eresult' = ScoredResult(ProblemId, o.res,
                                             list_created_files(workdir_files))
                   /\ steps' = steps \o ScoredSteps
       ELSE /\ spc' = "finally"
            /\ eresult' = AgentFailureResult(ProblemId, agent_result)
            /\ steps' = steps \o FailureSteps
    /\ UNCHANGED <<problems, suite_problems, sindex, suite_results, evaluation_configs,
                   config, cwd, elapsed, agent_result, trace>>

\* the finally clause of run_single_evaluation: evaluator.cleanup_problem
CleanupProblem ==
    /\ UNCHANGED notSuiteVars
    /\ spc = "finally"
    /\ trace' = Append(trace, Call("cleanup_problem", sindex, TRUE))
    /\ evaluation_configs' = evaluation_configs \ {ProblemId}
    /\ spc' = "append"
    /\ UNCHANGED <<steps, problems, suite_problems, sindex, suite_results,
                   config, cwd, temp_dir, workdir_files, elapsed, agent_result, eresult>>

\* results.append(result) and print_evaluation_result(result); the evaluator
\* and the locals of the finished calls are dropped
AppendResult ==
    /\ UNCHANGED notSuiteVars
    /\ spc = "append"
    /\ suite_results' = Append(suite_results, eresult)
    /\ eresult' = NoResult
    /\ agent_result' = NoResult
    /\ evaluation_configs' = {}
    /\ temp_dir' = "none" /\ workdir_files' = {}
    /\ elapsed' = 0
    /\ steps' = <<>>
    /\ spc' = "for"
    /\ UNCHANGED <<problems, suite_problems, sindex, config, cwd, trace>>

SuiteNext ==
    \/ SuiteStart
    \/ SuiteReturns
    \/ SkipUnknownProblem
    \/ StartProblem
    \/ ConstructEvaluator
    \/ SetupProblem
    \/ EvaluateAgent
    \/ PrepareWorkdir
    \/ ChdirWorkdir
    \/ AgentTick
    \/ AgentReturns
    \/ AgentInterrupted
    \/ ScoreAndReturn
    \/ CleanupProblem
    \/ AppendResult

\* ------------------------------------- _compare_results_to_ground_truth
\* numbers are held in tenths (1049 is 104.9); at these magnitudes the
\* rounding of the float division does not change a comparison with the
\* tolerance. Dicts are sets of <<key, value>> pairs; strings are sequences
\* of characters.
TolerancePercent == 5

NumericalKeys ==
    <<"top_customer_total_spent", "total_revenue", "total_transactions",
      "unique_customers", "avg_transaction_value", "highest_month_sales",
      "lowest_month_sales", "months_with_data">>

StringKeys == <<"top_customer_name">>

ZeroDivisionError == <<"float division by zero">>

Abs(x) == IF x < 0 THEN -x ELSE x

\* a comparison that excludes the bound itself
WithinTolerance_Strict(agent_val, gt_val, percent) ==
    IF gt_val > 0
    THEN 100 * Abs(agent_val - gt_val) < percent * gt_val
    ELSE 100 * Abs(agent_val - gt_val) > percent * gt_val

\* abs(agent_val - gt_val) / gt_val <= percent / 100, for gt_val # 0: the
\* division by a negative gt_val gives a ratio that is not positive
WithinTolerance(agent_val, gt_val, percent) ==
    IF gt_val > 0
    THEN 100 * Abs(agent_val - gt_val) <= percent * gt_val
    ELSE 100 * Abs(agent_val - gt_val) >= percent * gt_val

\* the credit of one numerical key
NumericCredit(agent_val, gt_val) ==
    IF WithinTolerance(agent_val, gt_val, TolerancePercent) THEN ScoreUnit
    ELSE IF WithinTolerance(agent_val, gt_val, 2 * TolerancePercent) THEN ScoreUnit \div 2
    ELSE 0

\* str.lower and str.strip over the modelled characters
Lower(str) ==
    [i \in 1..Len(str) |-> IF str[i] = "A" THEN "a" ELSE IF str[i] = "B" THEN "b" ELSE str[i]]

RECURSIVE Strip(_)
Strip(str) ==
    IF str = <<>> THEN str
    ELSE IF Head(str) = " " THEN Strip(Tail(str))
    ELSE IF Last(str) = " " THEN Strip(SubSeq(str, 1, Len(str) - 1))
    ELSE str

\* x in y, for strings
Contains(x, y) ==
    \E i \in 0..(Len(y) - Len(x)) : SubSeq(y, i + 1, i + Len(x)) = x

\* the credit of one string key
StringCredit(agent_val, gt_val) ==
    LET a == Lower(Strip(agent_val))
        g == Lower(Strip(gt_val))
    IN IF a = g THEN ScoreUnit
       ELSE IF Contains(a, g) \/ Contains(g, a) THEN ScoreUnit \div 2
       ELSE 0

\* the state of the two for loops: score, total_checks, the credit given
\* per key, and the exception that ended them
NoChecks == [score |-> 0, total_checks |-> 0, credits |-> {}, raised |-> FALSE, exc |-> None]

RECURSIVE CompareNumerical(_, _, _, _)
CompareNumerical(keys, agent, gt, acc) ==
    IF keys = <<>> \/ acc.raised THEN acc
    ELSE LET key == Head(keys) IN
         IF Has(agent, key) /\ Has(gt, key)
         THEN IF Get(gt, key) = 0
              THEN [acc EXCEPT !.total_checks = @ + 1, !.raised = TRUE,
                               !.exc = ZeroDivisionError]
              ELSE LET credit == NumericCredit(Get(agent, key), Get(gt, key)) IN
                   CompareNumerical(Tail(keys), agent, gt,
                       [acc EXCEPT !.total_checks = @ + 1, !.score = @ + credit,
                                   !.credits = @ \cup {<<key, credit>>}])
         ELSE CompareNumerical(Tail(keys), agent, gt, acc)

RECURSIVE CompareStrings(_, _, _, _)
CompareStrings(keys, agent, gt, acc) ==
    IF keys = <<>> \/ acc.raised THEN acc
    ELSE LET key == Head(keys) IN
         IF Has(agent, key) /\ Has(gt, key)
         THEN LET credit == StringCredit(Get(agent, key), Get(gt, key)) IN
              CompareStrings(Tail(keys), agent, gt,
                  [acc EXCEPT !.total_checks = @ + 1, !.score = @ + credit,
                              !.credits = @ \cup {<<key, credit>>}])
         ELSE CompareStrings(Tail(keys), agent, gt, acc)

\* _compare_results_to_ground_truth: the accuracy, or the exception
compare_results_to_ground_truth(agent, gt) ==
    LET acc == CompareStrings(StringKeys, agent, gt,
                   CompareNumerical(NumericalKeys, agent, gt, NoChecks))
    IN [raised |-> acc.raised, exc |-> acc.exc, credits |-> acc.credits,
        total_checks |-> acc.total_checks,
        accuracy |-> IF acc.raised THEN 0
                     ELSE IF acc.total_checks > 0 THEN acc.score \div acc.total_checks
                     ELSE 0]

\* the dicts with `key` absent or holding one of `values`
Entry(key, values) == {{}} \cup {{<<key, v>>} : v \in values}

\* the submissions and ground truths compared: a revenue at, within 5% of,
\* within 10% of and beyond 10% of a ground truth of 100.0, a ground truth of
\* zero and a negative one, a second numerical key, and the name
AgentResultsInputs ==
    {a \cup b \cup c :
        a \in Entry("total_revenue", {1000, 1049, 1050, 1051, 1100, 1101}),
        b \in Entry("total_transactions", {20, 21, 23}),
        c \in Entry("top_customer_name",
                    {<<"A">>, <<"a", "b">>, <<" ", "a", " ">>, <<"b">>, <<>>})}

GroundTruthInputs ==
    {a \cup b \cup c :
        a \in Entry("total_revenue", {1000, 0, -1000}),
        b \in Entry("total_transactions", {20}),
        c \in Entry("top_customer_name", {<<"a">>, <<"A", "B">>})}

\* ------------------------------------------------------- ScoringRubric
\* weights are held in hundredths: 40 is the weight 0.4
Weights(correctness, methodology, code_quality, completeness) ==
    [correctness_weight |-> correctness, methodology_weight |-> methodology,
     code_quality_weight |-> code_quality, completeness_weight |-> completeness]

\* the defaults of the dataclass fields
DefaultRubric == Weights(40, 30, 15, 15)

ValueError == <<"Rubric weights must sum to 1.0">>

\* The weights a caller may construct a rubric with.  They include sums of
\* exactly 0.99 and 1.01, sums beyond them, and a weight outside [0, 1].
RubricInputs ==
    {DefaultRubric, Weights(60, 30, 5, 5), Weights(150, -50, 0, 0),
     Weights(41, 30, 15, 15), Weights(0, 30, 35, 36),
     Weights(39, 30, 15, 15), Weights(0, 5, 55, 39),
     Weights(42, 30, 15, 15), Weights(38, 30, 15, 15)}

\* The float additions of __post_init__ round.  Of the inputs whose
\* weights sum to 0.99 or 1.01 in decimals, these have a float total on the
\* near side of the tolerance: 0.0 + 0.3 + 0.35 + 0.36 is
\* 1.0099999999999998 and 0.0 + 0.05 + 0.55 + 0.39 is 0.9900000000000001.
\* The others total the floats 1.01 and 0.99, and abs(1.01 - 1.0) is
\* 0.010000000000000009, abs(0.99 - 1.0) is 0.010000000000000009.
RoundedInside == {Weights(0, 30, 35, 36), Weights(0, 5, 55, 39)}

\* total in hundredths, as the decimal sum of the weights
WeightTotal(w) ==
    w.correctness_weight + w.methodology_weight + w.code_quality_weight
        + w.completeness_weight

\* abs(total - 1.0) > 0.01, on the float total
ExceedsTolerance(w) ==
    \/ Abs(WeightTotal(w) - 100) > 1
    \/ Abs(WeightTotal(w) - 100) = 1 /\ w \notin RoundedInside

\* ScoringRubric(...): the dataclass __init__ followed by __post_init__
ScoringRubric_Unchecked(w) == [raised |-> FALSE, exc |-> None, value |-> w]

ScoringRubric(w) ==
    IF ExceedsTolerance(w)
    THEN [raised |-> TRUE, exc |-> ValueError, value |-> NoResult]
    ELSE [raised |-> FALSE, exc |-> None, value |-> w]

\* the values of the scoring state that a comparison alone does not use
ScoringIdle ==
    /\ analysis_file = "absent" /\ created_files = {} /\ agent_output = {}
    /\ fault = "none" /\ weights = DefaultRubric /\ rubric = DefaultRubric
    /\ subscores = {}
    /\ score_result = NoResult /\ scpc = "idle"

CompareInit ==
    /\ agent_results \in AgentResultsInputs
    /\ ground_truth \in GroundTruthInputs
    /\ comparison = NoResult
    /\ cmpc = "call"
    /\ ScoringIdle

\* one call of _compare_results_to_ground_truth
Compare ==
    /\ UNCHANGED notScoreVars
    /\ cmpc = "call"
    /\ comparison' = compare_results_to_ground_truth(agent_results, ground_truth)
    /\ cmpc' = "done"
    /\ UNCHANGED <<agent_results, ground_truth, analysis_file, created_files,
                   agent_output, fault, weights, rubric, subscores, score_result, scpc>>

\* ------------------------------------------------- _score_agent_results
\* scores are integers over ScoreUnit and are added exactly, where the
\* floats of the code carry a rounding error of a few units in the last place
Tenths(n) == n * (ScoreUnit \div 10)

\* min(1.0, score)
Min1(score) == IF score > ScoreUnit THEN ScoreUnit ELSE score

\* a file is a record of its stem, its suffix and the markers found in it
File(stem, suffix, content) == [stem |-> stem, suffix |-> suffix, content |-> content]

HasSuffix(listed, suffixes) == {f \in listed : f.suffix \in suffixes}

RequiredKeys ==
    {"top_customer_total_spent", "top_customer_name", "total_revenue",
     "total_transactions", "unique_customers", "avg_transaction_value"}

\* _get_expected_files
ExpectedFiles == {<<"analysis", ".py">>, <<"results", ".csv">>, <<"report", ".md">>}

\* a _score_correctness whose credit without ground truth ignores the fields
score_correctness_FixedCredit(file, agent, gt, listed) ==
    IF file = "unparsable" THEN Min1(Tenths(2))
    ELSE IF file = "parsed"
    THEN IF gt = {} THEN Tenths(5)
         ELSE IF compare_results_to_ground_truth(agent, gt).raised THEN Min1(Tenths(2))
         ELSE Min1((7 * compare_results_to_ground_truth(agent, gt).accuracy) \div 10
                   + (3 * Cardinality({key \in RequiredKeys : Has(agent, key)}) * ScoreUnit) \div 60)
    ELSE Min1(Tenths(Cardinality({f \in listed : <<f.stem, f.suffix>> \in ExpectedFiles}))
              + (IF HasSuffix(listed, {".py", ".sql", ".md", ".txt"}) # {} THEN Tenths(2) ELSE 0))

\* a _score_correctness that gives nothing for a file it cannot use
score_correctness_NoPartialCredit(file, agent, gt, listed) ==
    IF file = "parsed" /\ (gt = {} \/ ~compare_results_to_ground_truth(agent, gt).raised)
    THEN Min1((IF gt # {} THEN (7 * compare_results_to_ground_truth(agent, gt).accuracy) \div 10
               ELSE Tenths(5))
              + (3 * Cardinality({key \in RequiredKeys : Has(agent, key)}) * ScoreUnit) \div 60)
    ELSE 0

\* _score_correctness: an unparsable file and a comparison that raises end
\* in the except clause, which adds 0.2 to the score of 0.0
score_correctness(file, agent, gt, listed) ==
    IF file = "unparsable" THEN Min1(Tenths(2))
    ELSE IF file = "parsed"
    THEN LET cmp == compare_results_to_ground_truth(agent, gt)
             present == Cardinality({key \in RequiredKeys : Has(agent, key)})
         IN IF gt # {} /\ cmp.raised THEN Min1(Tenths(2))
            ELSE Min1((IF gt # {} THEN (7 * cmp.accuracy) \div 10 ELSE Tenths(5))
                      + (3 * present * ScoreUnit) \div 60)
    ELSE Min1(Tenths(Cardinality({f \in listed : <<f.stem, f.suffix>> \in ExpectedFiles}))
              + (IF HasSuffix(listed, {".py", ".sql", ".md", ".txt"}) # {} THEN Tenths(2) ELSE 0))

\* _score_methodology: output holds the keyword groups found in the output
score_methodology(output, listed) ==
    Min1((IF "select from" \in output THEN Tenths(3) ELSE 0)
         + (IF "exploration" \in output THEN Tenths(3) ELSE 0)
         + (IF "analytical" \in output THEN Tenths(2) ELSE 0)
         + (IF HasSuffix(listed, {".py"}) # {} THEN Tenths(2) ELSE 0))

\* the score one python file adds
FileQuality(f) ==
    (IF "#" \in f.content THEN Tenths(2) ELSE 0)
    + (IF "import" \in f.content THEN Tenths(2) ELSE 0)
    + (IF "def" \in f.content THEN Tenths(3) ELSE 0)
    + (IF "try" \in f.content THEN Tenths(3) ELSE 0)

RECURSIVE SumQuality(_)
SumQuality(listed) ==
    IF listed = {} THEN 0
    ELSE LET f == CHOOSE x \in listed : TRUE IN FileQuality(f) + SumQuality(listed \ {f})

\* _score_code_quality
score_code_quality(listed) == Min1(SumQuality(HasSuffix(listed, {".py"})))

\* _score_completeness
score_completeness(listed) ==
    LET file_types ==
          (IF HasSuffix(listed, {".py"}) # {} THEN {"code"} ELSE {})
          \cup (IF HasSuffix(listed, {".csv", ".json", ".txt"}) # {} THEN {"results"} ELSE {})
          \cup (IF HasSuffix(listed, {".md"}) # {} THEN {"documentation"} ELSE {})
    IN Min1(Tenths(3 * Cardinality(file_types))
            + (IF Cardinality(listed) >= 3 THEN Tenths(1) ELSE 0))

\* _validate_results: every CSV file is read by pandas and holds rows; no
\* code calls it
validate_results(listed) == \A f \in HasSuffix(listed, {".csv"}) : "rows" \in f.content

\* the order in which the subscores are computed
ScoringOrder == <<"correctness", "methodology", "code_quality", "completeness">>

Subscore(category, file, agent, gt, output, listed) ==
    CASE category = "correctness" -> score_correctness(file, agent, gt, listed)
      [] category = "methodology" -> score_methodology(output, listed)
      [] category = "code_quality" -> score_code_quality(listed)
      [] category = "completeness" -> score_completeness(listed)

\* subscores[category] = value
SetItem(dict, key, value) == {p \in dict : p[1] # key} \cup {<<key, value>>}

\* the weighted total
TotalScore(subs, r) ==
    (Get(subs, "correctness") * r.correctness_weight
     + Get(subs, "methodology") * r.methodology_weight
     + Get(subs, "code_quality") * r.code_quality_weight
     + Get(subs, "completeness") * r.completeness_weight) \div 100

\* the dict returned at the end of the try block
ScoreDict(subs, r, listed) ==
    [total_score |-> TotalScore(subs, r), subscores |-> subs,
     metadata |-> {<<"created_files", {<<f.stem, f.suffix>> : f \in listed}>>,
                   <<"rubric_weights", r>>}]

\* the except clause: print is called with exc_info=True, a keyword it does
\* not have, so the TypeError of that call leaves _score_agent_results before
\* the return of the zero total with `subscores` and metadata.error
OnScoringException(e, subs) == [raised |-> TRUE, exc |-> PrintTypeError, res |-> None]

\* the position after the computation of a subscore
NextPosition(category) ==
    LET i == CHOOSE j \in 1..Len(ScoringOrder) : ScoringOrder[j] = category
    IN IF i = Len(ScoringOrder) THEN "total" ELSE ScoringOrder[i + 1]

\* what _list_created_files finds: the files the agent wrote, the database
\* evaluate_agent put in the working directory, and the submission
WorkdirFiles(written, file) ==
    written \cup {File("data", ".db", {})}
            \cup (IF file = "absent" THEN {} ELSE {File("analysis_results", ".json", {})})

AgentFiles ==
    {a \cup b \cup c :
        a \in {{}, {File("analysis", ".py", {"#", "import"})},
               {File("analysis", ".py", {"#", "import", "def", "try"})}},
        b \in {{}, {File("results", ".csv", {})}, {File("results", ".csv", {"rows"})}},
        c \in {{}, {File("report", ".md", {})}}}

ScoreInit ==
    /\ analysis_file \in {"absent", "unparsable", "parsed"}
    /\ agent_results \in
         IF analysis_file = "parsed"
         THEN {{}, {<<"total_revenue", 1000>>, <<"top_customer_name", <<"a">>>>},
               {<<"total_revenue", 1100>>, <<"top_customer_name", <<"A">>>>}}
         ELSE {{}}
    /\ ground_truth \in {{}, {<<"total_revenue", 1000>>, <<"top_customer_name", <<"a">>>>},
                         {<<"total_revenue", 0>>}}
    /\ \E written \in AgentFiles : created_files = WorkdirFiles(written, analysis_file)
    /\ agent_output \in {{}, {"select from", "exploration", "analytical"}}
    /\ fault \in {"none"} \cup Categories
    /\ weights \in RubricInputs
    /\ rubric = NoResult
    /\ subscores = ZeroSubscores
    /\ score_result = NoResult
    /\ scpc = "rubric"
    /\ comparison = NoResult
    /\ cmpc = "idle"

\* the rubric of the problem is constructed and stored in scoring_rubrics
\* before the problem is scored; a construction that raises stores nothing
ConstructRubric ==
    /\ UNCHANGED notScoreVars
    /\ scpc = "rubric"
    /\ IF ScoringRubric(weights).raised
       THEN rubric' = NoResult /\ scpc' = "rejected"
       ELSE rubric' = ScoringRubric(weights).value /\ scpc' = ScoringOrder[1]
    /\ UNCHANGED <<agent_results, ground_truth, comparison, cmpc, analysis_file,
                   created_files, agent_output, fault, weights, subscores, score_result>>

\* the computation of the next subscore; one that raises reaches the
\* except clause
ScoreSubscore ==
    /\ UNCHANGED notScoreVars
    /\ scpc \in Categories
    /\ IF fault = scpc
       THEN /\ score_result' = OnScoringException(OSError, subscores)
            /\ scpc' = IF OnScoringException(OSError, subscores).raised
                       THEN "raised" ELSE "returned"
            /\ subscores' = subscores
       ELSE /\ subscores' = SetItem(subscores, scpc,
                               Subscore(scpc, analysis_file, agent_results, ground_truth,
                                        agent_output, created_files))
            /\ scpc' = NextPosition(scpc)
            /\ score_result' = score_result
    /\ UNCHANGED <<agent_results, ground_truth, comparison, cmpc, analysis_file,
                   created_files, agent_output, fault, weights, rubric>>

\* the total and the return
ScoreTotal ==
    /\ UNCHANGED notScoreVars
    /\ scpc = "total"
    /\ score_result' = [raised |-> FALSE, exc |-> None,
                        res |-> ScoreDict(subscores, rubric, created_files)]
    /\ scpc' = "returned"
    /\ UNCHANGED <<agent_results, ground_truth, comparison, cmpc, analysis_file,
                   created_files, agent_output, fault, weights, rubric, subscores>>

ScoreNext ==
    \/ ConstructRubric
    \/ ScoreSubscore
    \/ ScoreTotal

\* ------------------------------------------- taiga: Grade and grade_problem
\* Subscores are held in thousandths (1000 is 1.0) and weights in units of
\* 0.00001 (100000 is 1), so a score is held in units of 0.00000001.
SubscoreOne == 1000
WeightOne == 100000
GradeScoreOne == SubscoreOne * WeightOne

AssertionError == <<"AssertionError">>
ProblemNotFound == <<"No problem found for id">>

\* Grade(subscores=..., weights=..., metadata=...)
Grade(subs, wts, metadata) == [subscores |-> subs, weights |-> wts, metadata |-> metadata]

Keys(dict) == {p[1] : p \in dict}

RECURSIVE SumValues(_)
\* sum(dict.values())
SumValues(dict) ==
    IF dict = {} THEN 0
    ELSE LET p == CHOOSE q \in dict : TRUE
         IN p[2] + SumValues(dict \ {p})

\* np.isclose(total, 1): abs(total - 1) <= 1e-8 + 1e-5 * abs(1)
IsCloseToOne(total) == Abs(total - WeightOne) <= 1

\* sum([subscores[key] * weights[key] for key in subscores.keys()])
WeightedScore(g) ==
    SumValues({<<p[1], p[2] * Get(g.weights, p[1])>> : p \in g.subscores})

\* the property Grade.score: four asserts, the sum, and the assert on it
GradeScore_NoRangeAsserts(g) ==
    IF Keys(g.subscores) # Keys(g.weights)
    THEN [raised |-> TRUE, exc |-> AssertionError, value |-> None]
    ELSE [raised |-> FALSE, exc |-> None, value |-> WeightedScore(g)]

GradeScore(g) ==
    IF Keys(g.subscores) # Keys(g.weights)
           \/ ~IsCloseToOne(SumValues(g.weights))
           \/ (\E p \in g.subscores : p[2] < 0)
           \/ (\E p \in g.subscores : p[2] > SubscoreOne)
    THEN [raised |-> TRUE, exc |-> AssertionError, value |-> None]
    ELSE IF WeightedScore(g) < 0 \/ WeightedScore(g) > GradeScoreOne
         THEN [raised |-> TRUE, exc |-> AssertionError, value |-> None]
         ELSE [raised |-> FALSE, exc |-> None, value |-> WeightedScore(g)]

\* the list `problems` of each module
ProblemsOf(tool) ==
    IF tool = "math_in_python" THEN {"factorial", "gcd"} ELSE {"libreoffice-hard2"}

GradeTools == {"math_in_python", "libreoffice_hard2"}

\* a _get_problem without its assertion
get_problem_NoSessionAssert(tool, problem_id, current) ==
    IF problem_id \notin ProblemsOf(tool)
    THEN [raised |-> TRUE, exc |-> ProblemNotFound, current |-> current]
    ELSE [raised |-> FALSE, exc |-> None, current |-> problem_id]

\* _get_problem, the same in both modules: what it raises or returns, and
\* the value it leaves in the global current_problem
get_problem(tool, problem_id, current) ==
    IF ~(current = "None" \/ current = problem_id)
    THEN [raised |-> TRUE, exc |-> AssertionError, current |-> current]
    ELSE IF problem_id \notin ProblemsOf(tool)
         THEN [raised |-> TRUE, exc |-> ProblemNotFound, current |-> current]
         ELSE [raised |-> FALSE, exc |-> None, current |-> problem_id]

\* float(True) and float(False), in thousandths
FloatOfBool(b) == IF b THEN SubscoreOne ELSE 0

\* what the environment of verify_output_file can be: no output file, a
\* failed conversion, an exception that leaves the function (the mkdir of
\* the conversion directory is outside its try block), or a comparison
\* whose diff has the given length
SolutionEnvironments ==
    {[kind |-> k, diff_length |-> 0] : k \in {"missing", "not_converted", "raises"}}
        \cup {[kind |-> "compared", diff_length |-> n] : n \in {0, 1, 400, 1000, 2500}}

\* verify_output_file: the score, in thousandths
verify_output_file(env) ==
    IF env.kind = "raises" THEN [raised |-> TRUE, exc |-> OSError, value |-> 0]
    ELSE IF env.kind \in {"missing", "not_converted"}
         THEN [raised |-> FALSE, exc |-> None, value |-> 0]
         ELSE IF env.diff_length = 0
              THEN [raised |-> FALSE, exc |-> None, value |-> SubscoreOne]
              ELSE [raised |-> FALSE, exc |-> None,
                    value |-> IF SubscoreOne - env.diff_length > 0
                              THEN SubscoreOne - env.diff_length ELSE 0]

GradeOf(score, metadata) ==
    Grade({<<"matched_solution", score>>}, {<<"matched_solution", WeightOne>>}, metadata)

\* math_in_python.grade_problem
math_grade_problem(problem_id, matches, current) ==
    LET found == get_problem("math_in_python", problem_id, current)
    IN IF found.raised
       THEN [raised |-> TRUE, exc |-> found.exc, grade |-> NoResult, current |-> found.current]
       ELSE [raised |-> FALSE, exc |-> None, current |-> found.current,
             grade |-> GradeOf(FloatOfBool(matches),
                               {<<"test", "this was graded successfully!">>})]

\* libreoffice_hard2.grade_problem: both try blocks absorb what is raised
libreoffice_grade_problem(problem_id, env, current) ==
    LET found == get_problem("libreoffice_hard2", problem_id, current)
        solved == verify_output_file(env)
    IN IF found.raised
       THEN [raised |-> FALSE, exc |-> None, current |-> found.current,
             grade |-> GradeOf(0, None)]
       ELSE [raised |-> FALSE, exc |-> None, current |-> found.current,
             grade |-> GradeOf(IF solved.raised THEN 0 ELSE solved.value, None)]

\* the dicts a Grade can be constructed with by other callers
SubscoreDicts ==
    {a \cup b :
        a \in {{}} \cup {{<<"a", v>>} : v \in {-500, 0, 500, 1000, 1500}},
        b \in {{}} \cup {{<<"b", v>>} : v \in {0, 1000}}}

WeightDicts ==
    {a \cup b :
        a \in {{}} \cup {{<<"a", v>>} : v \in {-50000, 0, 50000, 100000, 100001, 100002, 150000}},
        b \in {{}} \cup {{<<"b", v>>} : v \in {0, 50000, 150000}}}

GradeInit ==
    /\ current_problem \in {"None", "factorial", "gcd", "libreoffice-hard2"}
    /\ \/ /\ grade_tool \in GradeTools
          /\ grade = NoResult
          /\ gpc = "call"
       \/ /\ grade_tool = "Grade"
          /\ current_problem = "None"
          /\ \E subs \in SubscoreDicts, wts \in WeightDicts : grade = Grade(subs, wts, None)
          /\ gpc = "graded"
    /\ grade_call = NoResult
    /\ grade_score = NoResult

\* one call of math_in_python.grade_problem
GradeMath ==
    /\ UNCHANGED notGradeVars
    /\ gpc = "call" /\ grade_tool = "math_in_python"
    /\ \E problem_id \in ProblemsOf(grade_tool) \cup {"unknown"}, matches \in BOOLEAN :
          LET r == math_grade_problem(problem_id, matches, current_problem)
          IN /\ grade_call' = [problem_id |-> problem_id, matches |-> matches, raised |-> r.raised]
             /\ grade' = r.grade
             /\ current_problem' = r.current
             /\ gpc' = IF r.raised THEN "raised" ELSE "graded"
    /\ UNCHANGED <<grade_tool, grade_score>>

\* one call of libreoffice_hard2.grade_problem
GradeLibreoffice ==
    /\ UNCHANGED notGradeVars
    /\ gpc = "call" /\ grade_tool = "libreoffice_hard2"
    /\ \E problem_id \in ProblemsOf(grade_tool) \cup {"unknown"}, env \in SolutionEnvironments :
          LET r == libreoffice_grade_problem(problem_id, env, current_problem)
          IN /\ grade_call' = [problem_id |-> problem_id, env |-> env, raised |-> r.raised]
             /\ grade' = r.grade
             /\ current_problem' = r.current
             /\ gpc' = IF r.raised THEN "raised" ELSE "graded"
    /\ UNCHANGED <<grade_tool, grade_score>>

\* the consumer of the Grade reads its score
ReadScore ==
    /\ UNCHANGED notGradeVars
    /\ gpc = "graded"
    /\ grade_score' = GradeScore(grade)
    /\ gpc' = "scored"
    /\ UNCHANGED <<current_problem, grade_tool, grade_call, grade>>

GradeNext ==
    \/ GradeMath
    \/ GradeLibreoffice
    \/ ReadScore

\* ---------------------------------------------- get_evaluation_summary
\* the longest list of results that is summarised
MaxResults == 3

\* the fields of an EvaluationResult that the summary reads; times are in
\* seconds and scores are integers over ScoreUnit
SummarisedResult(success, score, execution_time) ==
    [success |-> success, score |-> score, execution_time |-> execution_time]

ResultInputs ==
    {SummarisedResult(TRUE, score, 12) :
        score \in {Tenths(10), Tenths(9), Tenths(8), Tenths(7), Tenths(5),
                   Tenths(5) - ScoreUnit \div 100, -Tenths(4)}}
        \cup {SummarisedResult(FALSE, 0, t) : t \in {0, 12}}

ResultLists == UNION {[1..n -> ResultInputs] : n \in 0..MaxResults}

RECURSIVE SumOf(_, _)
\* sum(r.<field> for r in list)
SumOf(list, field) ==
    IF list = <<>> THEN 0 ELSE Head(list)[field] + SumOf(Tail(list), field)

\* [r for r in list if <test>]
Filter(list, Test(_)) == SelectSeq(list, Test)

IsSuccessful(r) == r.success
IsExcellent(r) == r.score >= Tenths(9)
IsGood(r) == Tenths(7) <= r.score /\ r.score < Tenths(9)
IsSatisfactory(r) == Tenths(5) <= r.score /\ r.score < Tenths(7)
IsPoor(r) == r.score < Tenths(5)

\* a / b for the values of the model, on which the division is exact
Divide(a, b) == a \div b

get_evaluation_summary_OverAll(list) ==
    IF list = <<>> THEN {}
    ELSE {<<"total_evaluations", Len(list)>>,
          <<"successful_evaluations", Len(Filter(list, IsSuccessful))>>,
          <<"success_rate", Divide(Len(Filter(list, IsSuccessful)) * ScoreUnit, Len(list))>>,
          <<"average_score", Divide(SumOf(list, "score"), Len(list))>>,
          <<"average_execution_time", Divide(SumOf(list, "execution_time"), Len(list))>>,
          <<"score_distribution",
            {<<"excellent", Len(Filter(list, IsExcellent))>>,
             <<"good", Len(Filter(list, IsGood))>>,
             <<"satisfactory", Len(Filter(list, IsSatisfactory))>>,
             <<"poor", Len(Filter(list, IsPoor))>>}>>}

get_evaluation_summary(list) ==
    IF list = <<>> THEN {}
    ELSE LET successful_results == Filter(list, IsSuccessful)
         IN {<<"total_evaluations", Len(list)>>,
             <<"successful_evaluations", Len(successful_results)>>,
             <<"success_rate", Divide(Len(successful_results) * ScoreUnit, Len(list))>>,
             <<"average_score",
               IF successful_results # <<>>
               THEN Divide(SumOf(successful_results, "score"), Len(successful_results))
               ELSE 0>>,
             <<"average_execution_time", Divide(SumOf(list, "execution_time"), Len(list))>>,
             <<"score_distribution",
               {<<"excellent", Len(Filter(successful_results, IsExcellent))>>,
                <<"good", Len(Filter(successful_results, IsGood))>>,
                <<"satisfactory", Len(Filter(successful_results, IsSatisfactory))>>,
                <<"poor", Len(Filter(successful_results, IsPoor))>>}>>}

SummaryInit ==
    /\ summary_results \in ResultLists
    /\ summary = {}
    /\ smpc = "call"

Summarise ==
    /\ UNCHANGED notSummaryVars
    /\ smpc = "call"
    /\ summary' = get_evaluation_summary(summary_results)
    /\ smpc' = "returned"
    /\ UNCHANGED summary_results

\* ------------------------------- two evaluate_agent calls in one process
\* The calls are interleaved at the awaits of evaluate_agent,
\* _run_agent_locally and the conversation loop.  The current directory
\* belongs to the process: os.getcwd and os.chdir read and write one value.
Runs == {1, 2}

\* the file-writing tool calls an agent makes at most
MaxWrites == 2

\* Path(temp_dir) / "workdir" of a call
WorkdirOf(run) == IF run = 1 THEN "w1" ELSE "w2"

WrittenFile(dir, name, writer) == [dir |-> dir, name |-> name, writer |-> writer]

\* the file a tool call opens: both tools open a path relative to the
\* current directory (write_file below ./workdir/, submit_analysis at
\* analysis_results.json)
ToolFileName(tool) == IF tool = "submit_analysis" THEN "analysis_results.json" ELSE "analysis.py"

RunsInit ==
    /\ proc_cwd = "orig"
    /\ dirs = {"orig"}
    /\ dir_files = {}
    /\ run_pc = [run \in Runs |-> "start"]
    /\ run_original_cwd = [run \in Runs |-> "unset"]
    /\ run_writes = [run \in Runs |-> 0]
    /\ run_ok = [run \in Runs |-> FALSE]
    /\ run_scored = [run \in Runs |-> {}]
    /\ write_log = <<>>

\* evaluate_agent up to the await of agent.run_agent: the temporary
\* directory, the database, then original_cwd = os.getcwd() and
\* os.chdir(workdir); os.getcwd raises when the current directory was removed
EnterWorkdir(run) ==
    /\ UNCHANGED notRunVars
    /\ run_pc[run] = "start"
    /\ dirs' = dirs \cup {WorkdirOf(run)}
    /\ dir_files' = dir_files \cup {WrittenFile(WorkdirOf(run), "data.db", "harness")}
    /\ IF proc_cwd \in dirs
       THEN /\ run_original_cwd' = [run_original_cwd EXCEPT ![run] = proc_cwd]
            /\ proc_cwd' = WorkdirOf(run)
            /\ run_pc' = [run_pc EXCEPT ![run] = "agent"]
       ELSE /\ run_pc' = [run_pc EXCEPT ![run] = "finished"]
            /\ UNCHANGED <<run_original_cwd, proc_cwd>>
    /\ UNCHANGED <<run_writes, run_ok, run_scored, write_log>>

\* one write_file or submit_analysis call of the agent of a run: the file is
\* opened relative to the current directory of the process; the tool
\* absorbs the error of a directory that is gone
ToolWrites(run) ==
    /\ UNCHANGED notRunVars
    /\ run_pc[run] = "agent"
    /\ run_writes[run] < MaxWrites
    /\ run_writes' = [run_writes EXCEPT ![run] = @ + 1]
    /\ \E tool \in {"write_file", "submit_analysis"} :
          IF proc_cwd \in dirs
          THEN /\ dir_files' = {f \in dir_files : ~(f.dir = proc_cwd /\ f.name = ToolFileName(tool))}
                                   \cup {WrittenFile(proc_cwd, ToolFileName(tool), run)}
               /\ write_log' = Append(write_log, [run |-> run, tool |-> tool, dir |-> proc_cwd])
          ELSE UNCHANGED <<dir_files, write_log>>
    /\ UNCHANGED <<proc_cwd, dirs, run_pc, run_original_cwd, run_ok, run_scored>>

\* agent.run_agent returned: the finally clause restores original_cwd, and
\* an os.chdir that raises replaces the result by the local failure
AgentDone(run) ==
    /\ UNCHANGED notRunVars
    /\ run_pc[run] = "agent"
    /\ IF run_original_cwd[run] \in dirs
       THEN /\ proc_cwd' = run_original_cwd[run]
            /\ run_ok' = [run_ok EXCEPT ![run] = TRUE]
       ELSE UNCHANGED <<proc_cwd, run_ok>>
    /\ run_pc' = [run_pc EXCEPT ![run] = "finished"]
    /\ UNCHANGED <<dirs, dir_files, run_original_cwd, run_writes, run_scored, write_log>>

\* the rest of evaluate_agent: a successful run is scored on the files of
\* its workdir, then the temporary directory is removed
ScoreAndExit(run) ==
    /\ UNCHANGED notRunVars
    /\ run_pc[run] = "finished"
    /\ run_scored' = [run_scored EXCEPT ![run] =
                         IF run_ok[run] THEN {f \in dir_files : f.dir = WorkdirOf(run)} ELSE {}]
    /\ dirs' = dirs \ {WorkdirOf(run)}
    /\ dir_files' = {f \in dir_files : f.dir # WorkdirOf(run)}
    /\ run_pc' = [run_pc EXCEPT ![run] = "returned"]
    /\ UNCHANGED <<proc_cwd, run_original_cwd, run_writes, run_ok, write_log>>

RunsNext ==
    \E run \in Runs :
        \/ EnterWorkdir(run)
        \/ ToolWrites(run)
        \/ AgentDone(run)
        \/ ScoreAndExit(run)

\* ------------------------------------------ the path of a write_file call
\* A path is a flag (it starts with "/") and a sequence of segments that
\* "/" separates; a location of the filesystem is the sequence of names from
\* the root.  The call is made with the working directory of the run as the
\* current directory, as _run_agent_locally leaves it.
MaxSegments == 6

Segments == {".", "..", "workdir", "data.db"}

PathInputs ==
    {[absolute |-> a, segs |-> segs] :
        a \in BOOLEAN, segs \in SeqsUpTo(Segments, MaxSegments)}

\* Path(temp_dir) / "workdir", a temporary directory being /tmp/<name>
RunWorkdir == <<"tmp", "t", "workdir">>

\* database_path of the EvaluationConfig that cli_runner builds
DatasetSource == <<"workdir", "data.db">>

\* the directories and the files that exist when the agent starts
ExistingDirs == {<<>>, <<"tmp">>, <<"tmp", "t">>, RunWorkdir, <<"workdir">>}
ExistingFiles == {RunWorkdir \o <<"data.db">>, DatasetSource}

\* path.startswith("./") or path.startswith("workdir/") or
\* path.startswith("./workdir/")
HasSafePrefix(path) ==
    ~path.absolute /\ Len(path.segs) >= 2 /\ path.segs[1] \in {".", "workdir"}

\* the path that is opened: f"./workdir/{path.lstrip('/')}" without a prefix
OpenedPath(path) ==
    IF HasSafePrefix(path) THEN path.segs ELSE <<".", "workdir">> \o path.segs

RECURSIVE Resolve(_, _)
\* the location that the segments name from a location, as the operating
\* system resolves them: "." stays, ".." is the parent, a name descends;
\* no segment can follow a file
Resolve(loc, segs) ==
    IF segs = <<>> THEN [error |-> FALSE, loc |-> loc]
    ELSE IF loc \in ExistingFiles THEN [error |-> TRUE, loc |-> loc]
    ELSE IF Head(segs) = "." THEN Resolve(loc, Tail(segs))
    ELSE IF Head(segs) = ".."
         THEN Resolve(IF loc = <<>> THEN loc ELSE SubSeq(loc, 1, Len(loc) - 1), Tail(segs))
         ELSE Resolve(Append(loc, Head(segs)), Tail(segs))

\* parent.mkdir(parents=True, exist_ok=True) and open(file_path, "w"): the
\* location of the file that is created or overwritten, or the error that
\* the except clause turns into a ToolResult
WriteTarget(segs, permitted) ==
    LET r == Resolve(RunWorkdir, segs)
    IN IF r.error \/ r.loc \in ExistingDirs \/ Last(segs) \in {".", ".."}
       THEN [error |-> TRUE, loc |-> <<>>]
       ELSE IF ~IsPrefix(<<"tmp", "t">>, r.loc) /\ ~permitted
            THEN [error |-> TRUE, loc |-> <<>>]
            ELSE [error |-> FALSE, loc |-> r.loc]

WriteInit ==
    /\ wpath \in PathInputs
    /\ wpermitted \in BOOLEAN
    /\ wtarget = NoResult
    /\ wpc = "call"

\* one call of write_file
WriteFileCall ==
    /\ UNCHANGED notWriteVars
    /\ wpc = "call"
    /\ wtarget' = WriteTarget(OpenedPath(wpath), wpermitted)
    /\ wpc' = "returned"
    /\ UNCHANGED <<wpath, wpermitted>>

\* ------------------------------ setup_problem, evaluate_agent, cleanup_problem
\* the calls made on one evaluator
MaxLifeCalls == 4

LifeIds == {"p1", "p2"}

\* the database_path of a configuration; cli_runner gives every problem the
\* same default
DatabasePaths == {"/workdir/data.db", "/data/p.db"}

\* the record of a call: what it returned and what the evaluator and the
\* disk held before it
LifeCall(name, id, returned, provisioned) ==
    [call |-> name, id |-> id, returned |-> returned, provisioned |-> provisioned,
     configs |-> life_configs, rubrics |-> life_rubrics, files |-> life_files]

\* setup_problem: the configuration is stored, then the default rubric when
\* the id has none, then the dataset is written; an exception of that last
\* step is caught and the call returns False
LifeSetup(id, path, ok) ==
    /\ UNCHANGED notLifeVars
    /\ life_calls < MaxLifeCalls
    /\ life_calls' = life_calls + 1
    /\ life_configs' = SetItem(life_configs, id, path)
    /\ life_rubrics' = life_rubrics \cup {id}
    /\ life_files' = IF ok THEN life_files \cup {path} ELSE life_files
    /\ life_open' = life_open \cup {id}
    /\ life_last' = LifeCall("setup_problem", id, ok, FALSE)

\* evaluate_agent: the early return for an id that is not configured;
\* otherwise the working directory is provisioned and the agent runs
LifeEvaluate(id) ==
    /\ UNCHANGED notLifeVars
    /\ life_calls < MaxLifeCalls
    /\ life_calls' = life_calls + 1
    /\ life_last' = IF ~Has(life_configs, id)
                    THEN LifeCall("evaluate_agent", id, NotConfiguredResult(id), FALSE)
                    ELSE LifeCall("evaluate_agent", id, NoResult, TRUE)
    /\ UNCHANGED <<life_configs, life_rubrics, life_files, life_open>>

\* cleanup_problem: for a configured id, os.remove of an existing
\* database_path, whose exception is passed over, then the deletion of the
\* configuration and of the rubric
LifeCleanup(id, removed) ==
    /\ UNCHANGED notLifeVars
    /\ life_calls < MaxLifeCalls
    /\ life_calls' = life_calls + 1
    /\ IF Has(life_configs, id)
       THEN /\ life_files' = IF Get(life_configs, id) \in life_files /\ removed
                             THEN life_files \ {Get(life_configs, id)}
                             ELSE life_files
            /\ life_configs' = {c \in life_configs : c[1] # id}
            /\ life_rubrics' = life_rubrics \ {id}
       ELSE UNCHANGED <<life_configs, life_rubrics, life_files>>
    /\ life_open' = life_open \ {id}
    /\ life_last' = LifeCall("cleanup_problem", id, None, FALSE)

LifeInit ==
    /\ life_configs = {} /\ life_rubrics = {} /\ life_files = {} /\ life_open = {}
    /\ life_last = NoResult /\ life_calls = 0

LifeNext ==
    \E id \in LifeIds :
        \/ \E path \in DatabasePaths, ok \in BOOLEAN : LifeSetup(id, path, ok)
        \/ LifeEvaluate(id)
        \/ \E removed \in BOOLEAN : LifeCleanup(id, removed)

\* ----------------------- two evaluate_agent runs of one agent, in sequence
\* the tool calls of one agent
MaxScript == 3

\* the directory the process runs in, and the data_dir "data" that
\* setup_database_with_mock_data looks for in it
OriginalCwd == <<"app">>
DataDir == OriginalCwd \o <<"data">>

\* the files load_data_from_csv reads
DatasetCsvs ==
    {DataDir \o <<name>> :
        name \in {"customers.csv", "transactions.csv", "time_series.csv",
                  "reviews.csv", "locations.csv"}}

\* the tool calls a turn may hold: write_file with a path inside the working
\* directory, with a path one level above it, and with a path that names a
\* file of the data directory from the root; and submit_analysis
ScriptCalls ==
    { [name |-> "write_file", path |-> [absolute |-> FALSE, segs |-> <<"analysis.py">>]],
      [name |-> "write_file",
       path |-> [absolute |-> FALSE, segs |-> <<".", "..", "up.txt">>]],
      [name |-> "write_file",
       path |-> [absolute |-> FALSE,
                 segs |-> <<".", "..", "..", "..", "app", "data", "notes.txt">>]],
      [name |-> "submit_analysis",
       path |-> [absolute |-> FALSE, segs |-> <<"analysis_results.json">>]] }

AgentScripts == SeqsUpTo(ScriptCalls, MaxScript)

\* Path(data_dir).exists()
DataDirExists(outside) == \E f \in outside : IsPrefix(DataDir, f)

\* setup_database_with_mock_data: the CSV files are loaded when the data
\* directory exists, and read_csv raises when one is missing; without the
\* directory the data is generated from the fixed seed
SetupDatabaseRaises(outside) == DataDirExists(outside) /\ ~(DatasetCsvs \subseteq outside)

\* the file a tool call creates or overwrites: write_file opens the path it
\* built, submit_analysis opens analysis_results.json in the current
\* directory, which is the working directory
WrittenBy(call) ==
    IF call.name = "write_file"
    THEN WriteTarget(OpenedPath(call.path), TRUE)
    ELSE WriteTarget(call.path.segs, TRUE)

\* item.relative_to(workdir) of the files below the working directory
RelativeToWorkdir(inside) ==
    {SubSeq(f, Len(RunWorkdir) + 1, Len(f)) : f \in {g \in inside : IsPrefix(RunWorkdir, g)}}

\* what a run returns: the result of the except clause, or the result of the
\* success branch, whose scores are computed from the files of the working
\* directory
RunFailed(e) ==
    [success |-> FALSE, created_files |-> None, submitted |-> FALSE, scored_on |-> None,
     error_message |-> e]
RunScored(inside) ==
    [success |-> TRUE, created_files |-> ListOf(RelativeToWorkdir(inside)),
     submitted |-> RunWorkdir \o <<"analysis_results.json">> \in inside,
     scored_on |-> ListOf(RelativeToWorkdir(inside)), error_message |-> None]

RepeatInit ==
    /\ rep_script \in AgentScripts
    /\ rep_outside \in {{}, DatasetCsvs}
    /\ rep_inside = {}
    /\ rep_run = 1
    /\ rep_step = 0
    /\ rep_pc = "setup"
    /\ rep_outcome = <<NoResult, NoResult>>

\* the next run starts, or both runs are over
AfterRun == IF rep_run = 1 THEN "setup" ELSE "done"

\* evaluate_agent up to the agent: a new temporary directory and the dataset;
\* an exception is returned by the except clause
RepeatSetup ==
    /\ UNCHANGED notRepVars
    /\ rep_pc = "setup"
    /\ rep_step' = 0
    /\ IF SetupDatabaseRaises(rep_outside)
       THEN /\ rep_outcome' = [rep_outcome EXCEPT ![rep_run] = RunFailed(<<"FileNotFoundError">>)]
            /\ rep_inside' = {}
            /\ rep_pc' = AfterRun
            /\ rep_run' = IF rep_run = 1 THEN 2 ELSE rep_run
       ELSE /\ rep_inside' = {RunWorkdir \o <<"data.db">>}
            /\ rep_pc' = "agent"
            /\ UNCHANGED <<rep_outcome, rep_run>>
    /\ UNCHANGED <<rep_script, rep_outside>>

\* the agent executes the tool call of its next turn; a file lands in the
\* temporary directory or outside it, and a failed call changes nothing
RepeatTool ==
    /\ UNCHANGED notRepVars
    /\ rep_pc = "agent"
    /\ rep_step < Len(rep_script)
    /\ rep_step' = rep_step + 1
    /\ LET w == WrittenBy(rep_script[rep_step + 1])
       IN IF w.error THEN UNCHANGED <<rep_inside, rep_outside>>
          ELSE IF IsPrefix(<<"tmp", "t">>, w.loc)
               THEN rep_inside' = rep_inside \cup {w.loc} /\ rep_outside' = rep_outside
               ELSE rep_outside' = rep_outside \cup {w.loc} /\ rep_inside' = rep_inside
    /\ UNCHANGED <<rep_script, rep_run, rep_pc, rep_outcome>>

\* the model's last turn holds no tool call: the run is scored, the result
\* is returned and the temporary directory is removed
RepeatScore ==
    /\ UNCHANGED notRepVars
    /\ rep_pc = "agent"
    /\ rep_step = Len(rep_script)
    /\ rep_outcome' = [rep_outcome EXCEPT ![rep_run] = RunScored(rep_inside)]
    /\ rep_inside' = {}
    /\ rep_pc' = AfterRun
    /\ rep_run' = IF rep_run = 1 THEN 2 ELSE rep_run
    /\ UNCHANGED <<rep_script, rep_outside, rep_step>>

RepeatNext == RepeatSetup \/ RepeatTool \/ RepeatScore

\* ------------------------------- setup_problem and grade_problem, in sequence
\* the calls made on one server
MaxSessionCalls == 4

\* math_in_python.setup_problem: what _get_problem raises leaves the tool
math_setup_problem(problem_id, current) ==
    LET found == get_problem("math_in_python", problem_id, current)
    IN [raised |-> found.raised, resolved |-> ~found.raised, current |-> found.current]

\* libreoffice_hard2.setup_problem: the outer try block turns what
\* _get_problem raises into the returned text
libreoffice_setup_problem(problem_id, current) ==
    LET found == get_problem("libreoffice_hard2", problem_id, current)
    IN [raised |-> FALSE, resolved |-> ~found.raised, current |-> found.current]

\* the record of a call: whether the call resolved its problem, whether it
\* raised, the Grade it returned, and current_problem before it
SessionCall(name, problem_id, resolved, raised, returned) ==
    [call |-> name, problem_id |-> problem_id, resolved |-> resolved, raised |-> raised,
     grade |-> returned, before |-> sess_current]

\* the first id that the module knows
FirstKnown(problem_id) ==
    IF sess_first = "None" /\ problem_id \in ProblemsOf(sess_tool)
    THEN problem_id ELSE sess_first

SessionInit ==
    /\ sess_tool \in GradeTools
    /\ sess_current = "None"
    /\ sess_first = "None"
    /\ sess_last = NoResult
    /\ sess_calls = 0

\* one call of setup_problem
SessionSetup(problem_id) ==
    /\ UNCHANGED notSessVars
    /\ sess_calls < MaxSessionCalls
    /\ sess_calls' = sess_calls + 1
    /\ LET r == IF sess_tool = "math_in_python"
                THEN math_setup_problem(problem_id, sess_current)
                ELSE libreoffice_setup_problem(problem_id, sess_current)
       IN /\ sess_current' = r.current
          /\ sess_last' = SessionCall("setup_problem", problem_id, r.resolved, r.raised, NoResult)
    /\ sess_first' = FirstKnown(problem_id)
    /\ UNCHANGED sess_tool

\* one call of grade_problem
SessionGrade(problem_id) ==
    /\ UNCHANGED notSessVars
    /\ sess_calls < MaxSessionCalls
    /\ sess_calls' = sess_calls + 1
    /\ \E matches \in BOOLEAN, env \in SolutionEnvironments :
         LET r == IF sess_tool = "math_in_python"
                  THEN math_grade_problem(problem_id, matches, sess_current)
                  ELSE libreoffice_grade_problem(problem_id, env, sess_current)
         IN /\ sess_current' = r.current
            /\ sess_last' = SessionCall("grade_problem", problem_id,
                                        ~get_problem(sess_tool, problem_id, sess_current).raised,
                                        r.raised, r.grade)
    /\ sess_first' = FirstKnown(problem_id)
    /\ UNCHANGED sess_tool

SessionNext ==
    \E problem_id \in {"factorial", "gcd", "libreoffice-hard2", "unknown"} :
        \/ SessionSetup(problem_id)
        \/ SessionGrade(problem_id)

\* ------------------------------------------------------- specifications
\* the values of a component that does not run
LoopIdle ==
    /\ max_iterations = 0 /\ conn = FALSE /\ messages = <<>> /\ rangeNext = 0
    /\ iteration = Unbound /\ pc = "idle" /\ tool_calls = <<>> /\ results = <<>>
    /\ result = NoResult /\ tables = {} /\ files = {} /\ nRequests = 0 /\ execLog = <<>>

ContainerIdle ==
    /\ timeout_seconds = 0 /\ cpc = "idle" /\ container = "none" /\ status = NoStatus
    /\ clock = 0 /\ exit_code = NoStatus /\ caught = None /\ cresult = NoResult
    /\ nRuns = 0 /\ nWaits = 0 /\ nKills = 0

SuiteIdle ==
    /\ problems = {} /\ suite_problems = <<>> /\ sindex = 0 /\ suite_results = <<>>
    /\ spc = "idle" /\ evaluation_configs = {} /\ config = NoResult /\ cwd = "orig"
    /\ temp_dir = "none" /\ elapsed = 0 /\ agent_result = NoResult /\ eresult = NoResult
    /\ trace = <<>> /\ workdir_files = {} /\ steps = <<>>

ScoreIdle ==
    /\ agent_results = {} /\ ground_truth = {} /\ comparison = NoResult
    /\ cmpc = "idle" /\ ScoringIdle

GradeIdle ==
    /\ current_problem = "None" /\ grade_tool = "none" /\ grade_call = NoResult
    /\ grade = NoResult /\ grade_score = NoResult /\ gpc = "idle"

SummaryIdle == summary_results = <<>> /\ summary = {} /\ smpc = "idle"

RunsIdle ==
    /\ proc_cwd = "orig" /\ dirs = {"orig"} /\ dir_files = {}
    /\ run_pc = <<>> /\ run_original_cwd = <<>> /\ run_writes = <<>> /\ run_ok = <<>>
    /\ run_scored = <<>> /\ write_log = <<>>

WriteIdle ==
    /\ wpath = NoResult /\ wpermitted = FALSE /\ wtarget = NoResult /\ wpc = "idle"

LifeIdle ==
    /\ life_configs = {} /\ life_rubrics = {} /\ life_files = {} /\ life_open = {}
    /\ life_last = NoResult /\ life_calls = 0

RepeatIdle ==
    /\ rep_script = <<>> /\ rep_outside = {} /\ rep_inside = {} /\ rep_run = 0
    /\ rep_step = 0 /\ rep_pc = "idle" /\ rep_outcome = <<>>

SessionIdle ==
    /\ sess_tool = "none" /\ sess_current = "None" /\ sess_first = "None"
    /\ sess_last = NoResult /\ sess_calls = 0

\* the components that a specification of one component leaves idle
OthersIdle == GradeIdle /\ SummaryIdle /\ RunsIdle /\ WriteIdle /\ LifeIdle /\ RepeatIdle /\ SessionIdle

\* one call of DSAgent._conversation_loop
Init == LoopInit /\ ContainerIdle /\ SuiteIdle /\ ScoreIdle /\ OthersIdle
Next == LoopNext
Spec == Init /\ [][Next]_vars

\* the same, with the coroutine scheduled whenever it can take a step
FairSpec == Spec /\ WF_vars(Next)

\* one call of DSAgentEvaluator._run_agent_in_container
InitContainer == ContainerInit /\ LoopIdle /\ SuiteIdle /\ ScoreIdle /\ OthersIdle
NextContainer == ContainerNext
ContainerSpec == InitContainer /\ [][NextContainer]_vars

\* one call of run_suite_evaluation
InitSuite == SuiteInit /\ LoopIdle /\ ContainerIdle /\ ScoreIdle /\ OthersIdle
NextSuite == SuiteNext
SuiteSpec == InitSuite /\ [][NextSuite]_vars

\* _compare_results_to_ground_truth applied to each pair of inputs
InitCompare == CompareInit /\ LoopIdle /\ ContainerIdle /\ SuiteIdle /\ OthersIdle
NextCompare == Compare
CompareSpec == InitCompare /\ [][NextCompare]_vars

\* one call of a grade_problem tool, or one constructed Grade, and the
\* reading of the score
InitGrade == GradeInit /\ LoopIdle /\ ContainerIdle /\ SuiteIdle /\ ScoreIdle /\ SummaryIdle /\ RunsIdle /\ WriteIdle /\ LifeIdle /\ RepeatIdle /\ SessionIdle
NextGrade == GradeNext
GradeSpec == InitGrade /\ [][NextGrade]_vars

\* one call of get_evaluation_summary
InitSummary == SummaryInit /\ LoopIdle /\ ContainerIdle /\ SuiteIdle /\ ScoreIdle /\ GradeIdle /\ RunsIdle /\ WriteIdle /\ LifeIdle /\ RepeatIdle /\ SessionIdle
NextSummary == Summarise
SummarySpec == InitSummary /\ [][NextSummary]_vars

\* two calls of evaluate_agent in one process
InitRuns == RunsInit /\ LoopIdle /\ ContainerIdle /\ SuiteIdle /\ ScoreIdle /\ GradeIdle
                     /\ SummaryIdle /\ WriteIdle /\ LifeIdle /\ RepeatIdle /\ SessionIdle
NextRuns == RunsNext
RunsSpec == InitRuns /\ [][NextRuns]_vars

\* one call of write_file in the working directory of a run
InitWrite == WriteInit /\ LoopIdle /\ ContainerIdle /\ SuiteIdle /\ ScoreIdle /\ GradeIdle
                       /\ SummaryIdle /\ RunsIdle /\ LifeIdle /\ RepeatIdle /\ SessionIdle
NextWrite == WriteFileCall
WriteSpec == InitWrite /\ [][NextWrite]_vars

\* the calls made on one evaluator for its problems
InitLife == LifeInit /\ LoopIdle /\ ContainerIdle /\ SuiteIdle /\ ScoreIdle /\ GradeIdle
                     /\ SummaryIdle /\ RunsIdle /\ WriteIdle /\ RepeatIdle /\ SessionIdle
NextLife == LifeNext
LifeSpec == InitLife /\ [][NextLife]_vars

\* two runs of one agent on one problem, one after the other
InitRepeat == RepeatInit /\ LoopIdle /\ ContainerIdle /\ SuiteIdle /\ ScoreIdle /\ GradeIdle
                         /\ SummaryIdle /\ RunsIdle /\ WriteIdle /\ LifeIdle /\ SessionIdle
NextRepeat == RepeatNext
RepeatSpec == InitRepeat /\ [][NextRepeat]_vars

\* the calls of one session with a taiga server
InitSession == SessionInit /\ LoopIdle /\ ContainerIdle /\ SuiteIdle /\ ScoreIdle /\ GradeIdle
                           /\ SummaryIdle /\ RunsIdle /\ WriteIdle /\ LifeIdle /\ RepeatIdle
NextSession == SessionNext
SessionSpec == InitSession /\ [][NextSession]_vars

\* one call of _score_agent_results
InitScore == ScoreInit /\ LoopIdle /\ ContainerIdle /\ SuiteIdle /\ OthersIdle
NextScore == ScoreNext
ScoreSpec == InitScore /\ [][NextScore]_vars

\* ---------------------------------------------------------- properties
\* the tool_use blocks of a turn
ToolUses(turn) == SelectBlocks(turn.content, "tool_use")

RECURSIVE EmittedUses(_)
\* the tool_use blocks of all model turns of a transcript, in transcript order
EmittedUses(msgs) ==
    IF msgs = <<>> THEN <<>>
    ELSE (IF Head(msgs).role = "assistant" THEN ToolUses(Head(msgs)) ELSE <<>>)
         \o EmittedUses(Tail(msgs))

AssistantTurns(msgs) == {p \in 1..Len(msgs) : msgs[p].role = "assistant"}

\* the log entries of the dispatches of the tool call with this id
EntriesOf(id) == {i \in 1..Len(execLog) : execLog[i].id = id}

\* C1: for max_iterations >= 1 the loop never issues more than max_iterations
\* model requests, whatever the model answers, and it eventually returns a result.
C1_BoundedRequests ==
    /\ [](max_iterations >= 1 => nRequests <= max_iterations)
    /\ <>(max_iterations >= 1 => pc = "returned")

\* a model that emitted tool calls on every one of MaxIter turns, and the loop returned
C1_Witness ==
    /\ pc = "returned"
    /\ max_iterations = MaxIter
    /\ nRequests = max_iterations
    /\ result.success
    /\ \A p \in AssistantTurns(messages) : ToolUses(messages[p]) # <<>>

\* C2: a model turn without tool calls is the last turn of the transcript: the
\* loop has returned success with that transcript, no tool ran for the turn, no
\* tool-result turn follows it and no model request was made after it.
C2_NoToolCallsTerminates ==
    \A p \in AssistantTurns(messages) :
        ToolUses(messages[p]) = <<>> =>
            /\ p = Len(messages)
            /\ pc = "returned"
            /\ result.success
            /\ result.messages = messages
            /\ nRequests = Cardinality(AssistantTurns(messages))
            /\ \A i \in 1..Len(execLog) : execLog[i].turn < nRequests

\* a turn without tool calls after a turn with tool calls
C2_Witness ==
    /\ pc = "returned"
    /\ Len(messages) = 4
    /\ Last(messages).role = "assistant"
    /\ ToolUses(Last(messages)) = <<>>
    /\ execLog # <<>>

\* C3: tool calls are dispatched one at a time in emission order (the ids of the
\* dispatched calls are a prefix of the ids the model emitted, and all emitted
\* calls of a finished turn were dispatched), and a later call of a turn sees the
\* effects of the earlier ones: a table created earlier can be read, a file
\* written earlier exists.
C3_EmissionOrder ==
    LET uses == EmittedUses(messages) IN
    /\ Len(execLog) <= Len(uses)
    /\ \A i \in 1..Len(execLog) : execLog[i].id = uses[i].id
    /\ pc = "exec" => Len(execLog) = Len(uses) - Len(tool_calls) + Len(results)
    /\ pc \in {"request", "returned"} => Len(execLog) = Len(uses)
    /\ \A i, j \in 1..Len(uses) :
         (i < j /\ TurnOfId(uses[i].id) = TurnOfId(uses[j].id) /\ j <= Len(execLog)) =>
            /\ (conn /\ uses[i].name = "execute_sql" /\ uses[j].name = "read_table"
                     /\ Get(uses[i].input, "query") = <<"CREATE TABLE", Get(uses[j].input, "table_name")>>)
                   => execLog[j].text.kind = "Output"
            /\ (uses[i].name = "write_file" /\ execLog[i].text.kind = "Output")
                   => NormalisePath(Get(uses[i].input, "path")) \in execLog[j].sawFiles

\* a turn that creates a table and then reads it, both dispatched
C3_Witness ==
    /\ conn
    /\ Len(execLog) >= 2
    /\ execLog[1].name = "execute_sql" /\ execLog[2].name = "read_table"
    /\ execLog[1].turn = execLog[2].turn
    /\ execLog[2].text.kind = "Output"

\* C4: every model turn with n >= 1 tool calls that has been executed is followed
\* by exactly one tool-result turn with n entries; entry i carries the id of call
\* i and the result of dispatching call i; every call was dispatched once.
C4_OneResultPerCall ==
    /\ \A p \in AssistantTurns(messages) :
         LET uses == ToolUses(messages[p]) IN
         (uses # <<>> /\ (p < Len(messages) \/ pc \in {"request", "returned"})) =>
            /\ p + 1 <= Len(messages)
            /\ messages[p + 1].role = "user"
            /\ Len(messages[p + 1].content) = Len(uses)
            /\ \A i \in 1..Len(uses) :
                 LET entry == messages[p + 1].content[i] IN
                 /\ entry.type = "tool_result"
                 /\ entry.tool_use_id = uses[i].id
                 /\ Cardinality(EntriesOf(uses[i].id)) = 1
                 /\ \A k \in EntriesOf(uses[i].id) : entry.content = execLog[k].text
            /\ p + 2 <= Len(messages) => messages[p + 2].role = "assistant"
    /\ \A p \in 2..Len(messages) :
         messages[p].role = "user" =>
            messages[p - 1].role = "assistant" /\ ToolUses(messages[p - 1]) # <<>>

\* a tool-result turn answering two calls, the first of which failed
C4_Witness ==
    \E p \in 2..Len(messages) :
        /\ messages[p].role = "user"
        /\ Len(messages[p].content) = 2
        /\ messages[p].content[1].content.kind # "Output"
        /\ messages[p].content[2].content.kind = "Output"

\* C5 (as claimed): a loop that stops because the last allowed iteration still
\* executed tool calls returns a result that carries a "budget exhausted" status.
C5_BudgetExhaustedStatus ==
    (pc = "returned" /\ result.success /\ iteration = max_iterations - 1
        /\ Last(messages).role = "user") =>
        ("status" \in DOMAIN result /\ result.status = "budget exhausted")

\* C6: every model request so far either produced a model turn or was the last
\* one: when a request raised, the loop has returned success = false with the
\* error, the transcript as it was before the request (initial messages and
\* complete turn pairs) and iterations = the number of requests made.
C6_RequestFailureReturns ==
    /\ pc \in {"request", "exec"} => nRequests = Cardinality(AssistantTurns(messages))
    /\ (pc = "returned" /\ ~result.success) =>
          /\ result.error = <<"Claude API call failed">>
          /\ result.messages = messages
          /\ Len(messages) = 1 + 2 * (nRequests - 1)
          /\ result.iterations = nRequests
          /\ nRequests = Cardinality(AssistantTurns(messages)) + 1

\* the second request raised
C6_Witness ==
    /\ pc = "returned"
    /\ ~result.success
    /\ nRequests = 2
    /\ Len(result.messages) = 3

\* C7: a failing tool call does not abort the loop: the loop returns a failure
\* only for a failed model request; the failure of a call is the result of that
\* call in the transcript; all calls of a finished turn were dispatched; and the
\* loop stops after a turn with tool calls only on the last allowed iteration.
C7_ToolFailureRecoverable ==
    /\ (pc = "returned" /\ ~result.success) => result.error = <<"Claude API call failed">>
    /\ pc \in {"request", "returned"} =>
          \A i \in 1..Len(EmittedUses(messages)) :
              EntriesOf(EmittedUses(messages)[i].id) # {}
    /\ (pc = "returned" /\ result.success /\ Last(messages).role = "user") =>
          iteration = max_iterations - 1
    /\ \A k \in 1..Len(execLog) :
          (execLog[k].text.kind # "Output" /\ (pc # "exec" \/ execLog[k].turn < nRequests)) =>
              \E p \in 2..Len(messages) : \E i \in 1..Len(messages[p].content) :
                  /\ messages[p].role = "user"
                  /\ messages[p].content[i].tool_use_id = execLog[k].id
                  /\ messages[p].content[i].content = execLog[k].text
                  /\ messages[p].content[i].content.kind \in {"Error", "Tool execution error"}

\* a turn whose three calls failed in the three ways (a handler raised on a
\* missing argument, an unknown tool, a handler returned an error), and the
\* loop is about to make the next model request
C7_Witness ==
    /\ pc = "request"
    /\ Len(execLog) = 3
    /\ execLog[1].text.kind = "Tool execution error"
    /\ execLog[2].text = [kind |-> "Error", text |-> <<"Unknown tool", "bogus">>]
    /\ execLog[3].name = "read_table" /\ execLog[3].text.kind = "Error"
    /\ Len(messages) = 3

\* C8: each step leaves the previous transcript as a prefix of the new one, and
\* the transcript returned on any exit starts with the initial messages.
C8_AppendOnly ==
    /\ [][IsPrefix(messages, messages')]_vars
    /\ [](pc = "returned" => (result.messages = messages /\ IsPrefix(InitialMessages, messages)))

\* the loop returned a transcript of five turns
C8_Witness ==
    /\ pc = "returned"
    /\ Len(result.messages) = 5

\* C9 (as claimed): once a turn holding a successful submit_analysis call has
\* been executed no further model request is issued.
C9_SubmissionTerminates ==
    \A k \in 1..Len(execLog) :
        (execLog[k].name = "submit_analysis" /\ execLog[k].text.kind = "Output") =>
            nRequests <= execLog[k].turn

\* C10 (as claimed): when container.wait timed out, the container is not running
\* any more when the result is returned, the result is a failure whose error
\* names the timeout, and wait was called once.
C10_TimeoutKills ==
    (cpc = "done" /\ caught = ReadTimedOut) =>
        /\ container # "running"
        /\ ~cresult.success
        /\ cresult.error = <<"Container execution failed">> \o ReadTimedOut
        /\ nWaits = 1

\* the terminal outcome a returned dict stands for
Outcome(r) ==
    IF r.success THEN "Completed"
    ELSE IF r.error = <<"Container execution failed">> \o ReadTimedOut THEN "TimedOut"
    ELSE "Failed"

\* C11: one call of the container executor starts at most one container and
\* waits for it at most once (no restart, no retry); a container only exists
\* after the call left Pending; the call ends in exactly one terminal outcome,
\* which it never leaves or changes; and an exit status other than 0 observed
\* by the call always ends as a failed result, never as a success.
C11_ContainerLifecycle ==
    /\ [](/\ nRuns <= 1 /\ nWaits <= 1
          /\ (cpc = "pending" => container = "none" /\ nRuns = 0)
          /\ (cpc \in {"wait", "logs", "except"} => nRuns = 1)
          /\ (cpc = "done" <=> cresult # NoResult)
          /\ (cpc = "done" =>
                /\ Outcome(cresult) \in {"Completed", "TimedOut", "Failed"}
                /\ (Outcome(cresult) = "Completed" <=> (exit_code = 0 /\ caught = None))
                /\ (Outcome(cresult) = "TimedOut" => caught = ReadTimedOut)
                /\ (exit_code \notin {0, NoStatus} => ~cresult.success)))
    /\ [][cpc = "done" => (cpc' = "done" /\ cresult' = cresult /\ nRuns' = nRuns
                           /\ nWaits' = nWaits /\ nKills' = nKills)]_vars

\* the call returned a failure for a container that exited with status 137,
\* and the container went on to be removed after the return
C11_Witness ==
    /\ cpc = "done"
    /\ exit_code = 137
    /\ cresult.error = <<"Exit code", 137>>
    /\ container = "removed"

\* the positions of the history that hold a call of `name` for problem i
CallsOf(name, i) ==
    {k \in 1..Len(trace) : trace[k].call = name /\ trace[k].index = i}

\* the positions at which no evaluate_agent call is in progress
OutsideEvaluate == {"finally", "append", "for", "returned", "raised", "interrupted"}

\* the positions inside evaluate_agent
InsideEvaluate == {"evaluate", "prepare", "chdir", "agent", "score"}

\* run_single_evaluation for problem i is over
Finished(i) ==
    \/ i < sindex
    \/ i = sindex /\ spc \in {"append", "for", "returned", "raised", "interrupted"}

\* C12 (as claimed): evaluate_agent does not wait for the agent beyond
\* config.timeout_seconds, and a run that took longer than that is returned
\* as a failure.
C12_TimeoutEnforced ==
    /\ spc = "agent" => elapsed <= config.timeout_seconds
    /\ (spc = "finally" /\ elapsed > config.timeout_seconds) => ~eresult.success

\* C13: when no evaluate_agent call is in progress the temporary directory
\* of the last call does not exist and the current directory is the one the
\* process had before the call; and once run_single_evaluation is over for a
\* problem, each of its evaluate_agent calls was followed by one
\* cleanup_problem call, also when evaluate_agent raised.
C13_CleanupUnconditional ==
    /\ spc \in OutsideEvaluate => (temp_dir # "exists" /\ cwd = "orig")
    /\ \A i \in 1..Len(suite_problems) :
         Finished(i) =>
            /\ Cardinality(CallsOf("evaluate_agent", i)) <= 1
            /\ Cardinality(CallsOf("cleanup_problem", i))
                 = Cardinality(CallsOf("evaluate_agent", i))
            /\ \A k \in CallsOf("cleanup_problem", i) :
                 \E j \in CallsOf("evaluate_agent", i) : j < k

\* the second problem of a suite was interrupted while its agent ran, after
\* the first one had returned its result
C13_Witness ==
    /\ spc = "interrupted"
    /\ sindex = 2
    /\ Len(suite_results) = 1
    /\ CallsOf("cleanup_problem", 2) # {}
    /\ temp_dir = "removed"

\* C14: an evaluate_agent call ends by returning (only an interruption of
\* the awaited agent run leaves it otherwise), and what it returns is a
\* result of the problem that either is a success or has score 0, no
\* subscores and an error message.
C14_EvaluateNeverRaises ==
    /\ [](spc = "finally" =>
            /\ eresult.problem_id = ProblemId
            /\ (~eresult.success =>
                  /\ eresult.score = 0
                  /\ eresult.subscores = {}
                  /\ eresult.error_message # None))
    /\ [][(spc \in InsideEvaluate) =>
             (spc' \in (InsideEvaluate \cup {"finally", "interrupted"}))]_vars

\* the scoring raised and evaluate_agent returned a failure that names it
C14_Witness ==
    /\ spc = "finally"
    /\ ~eresult.success
    /\ eresult.error_message = PrintTypeError
    /\ agent_result.success

\* C15 (as claimed): a suite run never aborts, and it returns one result per
\* listed problem, in the order of the list.
C15_OneResultPerProblem ==
    /\ spc # "raised"
    /\ spc = "returned" =>
         /\ Len(suite_results) = Len(suite_problems)
         /\ \A i \in 1..Len(suite_problems) :
              suite_results[i].problem_id = suite_problems[i]

\* C16: when setup_problem returned False for a problem, evaluate_agent is
\* never called for it, and run_single_evaluation returns the failure with
\* score 0, no subscores and the message "Failed to setup problem", which is
\* the result the suite records for the problem.
C16_SetupFailureAborts ==
    \A k \in 1..Len(trace) :
        (trace[k].call = "setup_problem" /\ ~trace[k].ok) =>
            LET i == trace[k].index
                n == Cardinality({j \in 1..k : trace[j].call = "setup_problem"})
            IN /\ CallsOf("evaluate_agent", i) = {}
               /\ CallsOf("cleanup_problem", i) = {}
               /\ (i = sindex /\ spc = "append") =>
                     eresult = SetupFailureResult(suite_problems[i])
               /\ Len(suite_results) >= n =>
                     /\ suite_results[n] = SetupFailureResult(suite_problems[i])
                     /\ ~suite_results[n].success
                     /\ suite_results[n].score = 0
                     /\ suite_results[n].subscores = {}
                     /\ suite_results[n].error_message # None

\* the setup of the first problem failed and the suite went on to evaluate
\* the second one
C16_Witness ==
    /\ Len(trace) >= 3
    /\ trace[1].call = "setup_problem" /\ ~trace[1].ok
    /\ trace[3].call = "evaluate_agent"
    /\ Len(suite_results) = 2

\* the sum of the credits of a set of <<key, credit>> pairs
RECURSIVE SumCredits(_)
SumCredits(cs) ==
    IF cs = {} THEN 0
    ELSE LET c == CHOOSE x \in cs : TRUE IN c[2] + SumCredits(cs \ {c})

\* the numerical keys both dicts hold
ComparedNumerical ==
    {NumericalKeys[i] : i \in {j \in 1..Len(NumericalKeys) :
        Has(agent_results, NumericalKeys[j]) /\ Has(ground_truth, NumericalKeys[j])}}

\* the credit the claim gives: 1 for a ratio |agent - truth| / truth of at
\* most 0.05, 0.5 for one above 0.05 and at most 0.10, 0 otherwise
ClaimedCredit(agent_val, truth) ==
    IF truth < 0 \/ (truth > 0 /\ 20 * Abs(agent_val - truth) <= truth) THEN ScoreUnit
    ELSE IF truth > 0 /\ 10 * Abs(agent_val - truth) <= truth THEN ScoreUnit \div 2
    ELSE 0

\* C19 (as claimed): the comparison returns, every numerical key of both
\* dicts earns the credit the claim gives for its ratio, and the accuracy is
\* the sum of the credits divided by the number of compared fields.
C19_NumericCredit ==
    cmpc = "done" =>
        /\ ~comparison.raised
        /\ \A key \in ComparedNumerical :
             <<key, ClaimedCredit(Get(agent_results, key), Get(ground_truth, key))>>
                 \in comparison.credits
        /\ comparison.total_checks = Cardinality(comparison.credits)
        /\ comparison.accuracy * comparison.total_checks = SumCredits(comparison.credits)

\* C20: against a ground truth of 100.0, an agent value of 100.0 and one of
\* 104.9 earn full credit, and one of 110.0, exactly 10% off, earns half
\* credit: the bound of the partial-credit band is inclusive.
C20_ToleranceBoundary ==
    (cmpc = "done" /\ Has(ground_truth, "total_revenue") /\ Has(agent_results, "total_revenue")
        /\ Get(ground_truth, "total_revenue") = 1000) =>
        LET a == Get(agent_results, "total_revenue") IN
        /\ a \in {1000, 1049} => <<"total_revenue", ScoreUnit>> \in comparison.credits
        /\ a = 1100 => <<"total_revenue", ScoreUnit \div 2>> \in comparison.credits

\* 110.0 compared with 100.0
C20_Witness ==
    /\ cmpc = "done"
    /\ <<"total_revenue", 1100>> \in agent_results
    /\ <<"total_revenue", 1000>> \in ground_truth
    /\ <<"total_revenue", ScoreUnit \div 2>> \in comparison.credits

\* C20 (as claimed): 100.0 and 104.9 earn full credit and 110.0 earns none.
C20_AsClaimed ==
    (cmpc = "done" /\ Has(ground_truth, "total_revenue") /\ Has(agent_results, "total_revenue")
        /\ Get(ground_truth, "total_revenue") = 1000) =>
        LET a == Get(agent_results, "total_revenue") IN
        /\ a \in {1000, 1049} => <<"total_revenue", ScoreUnit>> \in comparison.credits
        /\ a = 1100 => <<"total_revenue", 0>> \in comparison.credits

\* _score_agent_results is over
ScoringOver == scpc \in {"returned", "raised"}

\* C17 (as claimed): when a subscore computation raised, _score_agent_results
\* returns, with a total of 0, four subscores of 0 and the message under
\* metadata.error.
C17_ScoringExceptionAbsorbed ==
    (fault # "none" /\ ScoringOver) =>
        /\ scpc = "returned"
        /\ ~score_result.raised
        /\ score_result.res.total_score = 0
        /\ score_result.res.subscores = ZeroSubscores
        /\ Has(score_result.res.metadata, "error")

ComparedStrings ==
    {StringKeys[i] : i \in {j \in 1..Len(StringKeys) :
        Has(agent_results, StringKeys[j]) /\ Has(ground_truth, StringKeys[j])}}

\* x and y are the same text when case and surrounding blanks are ignored
SameIgnoringCase(x, y) == Lower(Strip(x)) = Lower(Strip(y))

\* one of the two texts, case and surrounding blanks ignored, occurs in the other
OneContainsOther(x, y) ==
    LET a == Lower(Strip(x))
        b == Lower(Strip(y))
    IN \/ \E i \in 1..(Len(b) + 1) : \E j \in (i - 1)..Len(b) : SubSeq(b, i, j) = a
       \/ \E i \in 1..(Len(a) + 1) : \E j \in (i - 1)..Len(a) : SubSeq(a, i, j) = b

\* C21 (as claimed): the comparison returns, and every string key of both
\* dicts has full credit if the two values are equal ignoring case and
\* surrounding whitespace, half credit if they are not but one contains the
\* other, and zero credit otherwise.
C21_StringCredit ==
    cmpc = "done" =>
        /\ ~comparison.raised
        /\ \A key \in ComparedStrings :
             LET a == Get(agent_results, key)
                 g == Get(ground_truth, key)
             IN <<key, IF SameIgnoringCase(a, g) THEN ScoreUnit
                       ELSE IF OneContainsOther(a, g) THEN ScoreUnit \div 2
                       ELSE 0>> \in comparison.credits

\* the correctness subscore has been computed
CorrectnessScored ==
    /\ scpc \in {"methodology", "code_quality", "completeness", "total", "returned"}
    /\ fault # "correctness"

\* presence * 0.3, presence being the share of the six required keys that
\* the submission holds
PresenceShare == (3 * Cardinality({key \in RequiredKeys : Has(agent_results, key)}) * ScoreUnit) \div 60

\* C22: for a parsed submission the correctness subscore is, capped at 1,
\* 0.3 * presence plus 0.7 * accuracy when the problem has ground truth and
\* the comparison returned, plus 0.5 when it has no ground truth (so it
\* still depends on the fields the submission holds); it is 0.2 when the
\* comparison with the ground truth raised.
C22_CorrectnessCombination ==
    (analysis_file = "parsed" /\ CorrectnessScored) =>
        LET cmp == compare_results_to_ground_truth(agent_results, ground_truth)
            correctness == Get(subscores, "correctness")
        IN /\ (ground_truth # {} /\ ~cmp.raised) =>
                 correctness = Min1((7 * cmp.accuracy) \div 10 + PresenceShare)
           /\ ground_truth = {} => correctness = Min1(Tenths(5) + PresenceShare)
           /\ (ground_truth # {} /\ cmp.raised) => correctness = Tenths(2)

\* a submission with two of the six required keys, no ground truth: 0.6
C22_Witness ==
    /\ analysis_file = "parsed"
    /\ CorrectnessScored
    /\ ground_truth = {}
    /\ Has(agent_results, "total_revenue")
    /\ Get(subscores, "correctness") = Tenths(6)

\* C22 (as claimed): for a parsed submission the correctness subscore is
\* 0.7 * accuracy + 0.3 * presence when the problem has ground truth, and the
\* same fixed credit for every submission when it has none.
C22_AsClaimed ==
    (analysis_file = "parsed" /\ CorrectnessScored) =>
        LET cmp == compare_results_to_ground_truth(agent_results, ground_truth)
            correctness == Get(subscores, "correctness")
        IN /\ ground_truth # {} =>
                 (~cmp.raised /\ correctness = (7 * cmp.accuracy) \div 10 + PresenceShare)
           /\ ground_truth = {} => correctness = Tenths(5)

\* the weighted sum of four subscores, in hundredths of a score unit
WeightedSum(subs, r) ==
    Get(subs, "correctness") * r.correctness_weight
    + Get(subs, "methodology") * r.methodology_weight
    + Get(subs, "code_quality") * r.code_quality_weight
    + Get(subs, "completeness") * r.completeness_weight

\* C23 (as claimed): for every accepted rubric, working directory and
\* transcript, the returned scoring result has its four subscores in [0, 1],
\* a total_score that is the sum of subscore times weight, and a total_score
\* in [0, 1].
C23_TotalInUnitInterval ==
    scpc = "returned" =>
        /\ \A c \in Categories :
              /\ Has(score_result.res.subscores, c)
              /\ Get(score_result.res.subscores, c) >= 0
              /\ Get(score_result.res.subscores, c) <= ScoreUnit
        /\ 100 * score_result.res.total_score
              = WeightedSum(score_result.res.subscores, rubric)
        /\ score_result.res.total_score >= 0
        /\ score_result.res.total_score <= ScoreUnit

GradeWellFormed(g) ==
    /\ Keys(g.subscores) = Keys(g.weights)
    /\ \A p \in g.subscores : p[2] >= 0 /\ p[2] <= SubscoreOne
    /\ IsCloseToOne(SumValues(g.weights))

\* C25: a Grade returned by grade_problem of math_in_python or of
\* libreoffice_hard2, on the normal and on the error paths, has subscores and
\* weights over the same keys, subscores in [0, 1] and weights summing to 1,
\* and a call that raises returns no Grade; Grade.score of such a Grade
\* returns; whenever Grade.score returns, it returns the sum of subscore
\* times weight, a value in [0, 1]; and Grade.score raises instead of
\* returning when the keys differ, a subscore is outside [0, 1], the weights
\* do not sum to 1, or the sum of the products is outside [0, 1].
C25_GradeContract ==
    /\ (grade_tool \in GradeTools /\ gpc \in {"graded", "scored"}) =>
          /\ GradeWellFormed(grade)
          /\ SumValues(grade.weights) = WeightOne
    /\ gpc = "raised" => grade = NoResult
    /\ gpc = "scored" =>
          /\ grade_tool \in GradeTools => ~grade_score.raised
          /\ ~grade_score.raised =>
                /\ grade_score.value = WeightedScore(grade)
                /\ grade_score.value >= 0
                /\ grade_score.value <= GradeScoreOne
          /\ ~GradeWellFormed(grade) => grade_score.raised
          /\ (GradeWellFormed(grade)
                /\ (WeightedScore(grade) < 0 \/ WeightedScore(grade) > GradeScoreOne))
                => grade_score.raised

\* the Grade of the error path of libreoffice_hard2 (the solution function
\* raised) was returned and its score read: 0
C25_Witness ==
    /\ gpc = "scored"
    /\ grade_tool = "libreoffice_hard2"
    /\ grade_call.problem_id = "libreoffice-hard2"
    /\ grade_call.env.kind = "raises"
    /\ grade_score = [raised |-> FALSE, exc |-> None, value |-> 0]

\* the successful results of the summarised list
Successes == Filter(summary_results, IsSuccessful)

\* C26: for a non-empty list of results, success_rate is successes / total,
\* average_score is the mean score of the successful results (0 when there
\* is none), and the four buckets count the successful results with a score
\* >= 0.9, in [0.7, 0.9), in [0.5, 0.7) and < 0.5, so that they sum to the
\* number of successes; the scores [1.0, 0.8, fail] give 2/3, 0.9, and the
\* buckets excellent 1, good 1, poor 0.
C26_Summary ==
    (smpc = "returned" /\ summary_results # <<>>) =>
        LET n == Len(summary_results)
            k == Len(Successes)
            dist == Get(summary, "score_distribution")
            in(lo, hi) == Cardinality({i \in 1..k : lo <= Successes[i].score
                                                    /\ Successes[i].score < hi})
        IN /\ Get(summary, "success_rate") * n = k * ScoreUnit
           /\ Get(summary, "successful_evaluations") = k
           /\ Get(summary, "total_evaluations") = n
           /\ k > 0 => Get(summary, "average_score") * k = SumOf(Successes, "score")
           /\ k = 0 => Get(summary, "average_score") = 0
           /\ Get(dist, "excellent") = in(Tenths(9), 2 * ScoreUnit)
           /\ Get(dist, "good") = in(Tenths(7), Tenths(9))
           /\ Get(dist, "satisfactory") = in(Tenths(5), Tenths(7))
           /\ Get(dist, "poor") = in(-ScoreUnit, Tenths(5))
           /\ Get(dist, "excellent") + Get(dist, "good") + Get(dist, "satisfactory")
                 + Get(dist, "poor") = k
           /\ (n = 3 /\ \A i \in 1..n : ~summary_results[i].success => i = 3)
                 /\ k = 2 /\ Successes[1].score = ScoreUnit
                 /\ Successes[2].score = Tenths(8)
              => /\ 3 * Get(summary, "success_rate") = 2 * ScoreUnit
                 /\ Get(summary, "average_score") = Tenths(9)
                 /\ Get(dist, "excellent") = 1 /\ Get(dist, "good") = 1
                 /\ Get(dist, "poor") = 0

\* the summary of the scores [1.0, 0.8, fail] was returned
C26_Witness ==
    /\ smpc = "returned"
    /\ Len(summary_results) = 3
    /\ summary_results[1] = SummarisedResult(TRUE, ScoreUnit, 12)
    /\ summary_results[2] = SummarisedResult(TRUE, Tenths(8), 12)
    /\ ~summary_results[3].success
    /\ Get(summary, "average_score") = Tenths(9)

\* C27 (as claimed): of two evaluate_agent calls interleaved at their
\* awaits, every file a run's tools write lands in that run's own working
\* directory, each run is scored on the files of its own tools and of the
\* harness only, and once both calls returned the current directory of the
\* process is the original one.
C27_PrivateWorkdirs ==
    /\ \A i \in 1..Len(write_log) : write_log[i].dir = WorkdirOf(write_log[i].run)
    /\ \A run \in Runs : \A f \in run_scored[run] : f.writer \in {run, "harness"}
    /\ (\A run \in Runs : run_pc[run] = "returned") => proc_cwd = "orig"

\* C28 (as claimed): for every path argument, the file that write_file
\* creates or overwrites lies inside the working directory of the run, and
\* it is never the dataset at its source location.
C28_WritesInsideWorkdir ==
    (wpc = "returned" /\ ~wtarget.error) =>
        /\ IsPrefix(RunWorkdir, wtarget.loc)
        /\ wtarget.loc # RunWorkdir
        /\ wtarget.loc # DatasetSource

\* C29 (as claimed): the result that evaluate_agent returns for a configured
\* problem lists in created_files every non-hidden file that the working
\* directory held when the agent stopped, after a successful agent run and
\* after a failed one.
C29_CreatedFilesReported ==
    [][(spc = "score" /\ spc' = "finally") =>
          eresult'.created_files = ListOf({name \in workdir_files : ~IsHidden(name)})]_vars

\* the last call was made on an id that was configured
WasConfigured == Has(life_last.configs, life_last.id)

\* C30 (as claimed): a problem is configured exactly from a setup_problem to
\* the next cleanup_problem for its id; after cleanup_problem of a configured
\* problem its configuration and rubric are gone and the file at its
\* database_path is removed; evaluate_agent on an id that is not configured
\* returns the 'not configured' failure without provisioning a working
\* directory; cleanup_problem on such an id changes nothing; and a cleanup
\* leaves the configurations and rubrics of the other problems as they were.
C30_ProblemLifecycle ==
    /\ \A id \in LifeIds : Has(life_configs, id) <=> id \in life_open
    /\ life_calls > 0 =>
          /\ (life_last.call = "cleanup_problem" /\ WasConfigured) =>
                /\ ~Has(life_configs, life_last.id)
                /\ life_last.id \notin life_rubrics
                /\ Get(life_last.configs, life_last.id) \notin life_files
          /\ (life_last.call = "evaluate_agent" /\ ~WasConfigured) =>
                /\ life_last.returned = NotConfiguredResult(life_last.id)
                /\ ~life_last.provisioned
          /\ (life_last.call = "cleanup_problem" /\ ~WasConfigured) =>
                /\ life_configs = life_last.configs
                /\ life_rubrics = life_last.rubrics
                /\ life_files = life_last.files
          /\ life_last.call = "cleanup_problem" =>
                \A id \in LifeIds \ {life_last.id} :
                    /\ {c \in life_configs : c[1] = id} = {c \in life_last.configs : c[1] = id}
                    /\ id \in life_rubrics <=> id \in life_last.rubrics

\* the place of a step in the order of the claim; 0 for the removal of the
\* working directory and the listing of the files, which the order leaves out
StepRank(step) ==
    CASE step = "provision" -> 1
      [] step = "dataset" -> 2
      [] step = "agent" -> 3
      [] step = "score" -> 4
      [] step = "result" -> 5
      [] OTHER -> 0

\* the positions of a step in the history of the call
StepsAt(step) == {i \in DOMAIN steps : steps[i] = step}

\* C31: within one evaluate_agent call the working directory is provisioned,
\* the dataset is materialised, the agent is invoked, the scoring runs and the
\* result is assembled in this order and each at most once; the agent never
\* starts before the dataset is in place; and the scoring and the listing of
\* the created files happen before the working directory is removed.
C31_StepOrder ==
    /\ \A i, j \in DOMAIN steps :
          (i < j /\ StepRank(steps[i]) > 0 /\ StepRank(steps[j]) > 0)
             => StepRank(steps[i]) < StepRank(steps[j])
    /\ \A step \in {"list", "remove"} : Cardinality(StepsAt(step)) <= 1
    /\ \A i \in StepsAt("agent") : \E j \in StepsAt("dataset") : j < i
    /\ \A i \in StepsAt("dataset") : \E j \in StepsAt("provision") : j < i
    /\ \A i \in StepsAt("score") \cup StepsAt("list") :
          \A j \in StepsAt("remove") : i < j
    /\ \A i \in StepsAt("list") : \E j \in StepsAt("score") : j < i

\* a call went through every step, and the directory is removed last
C31_Witness ==
    steps = <<"provision", "dataset", "agent", "score", "list", "result", "remove">>

\* C32 (as claimed): two runs of the same agent, with the same turns, on the
\* same problem return the same created files, the same submission and the
\* same scores; the second run does not depend on what the first left behind.
C32_RunsAgree ==
    rep_pc = "done" => rep_outcome[1] = rep_outcome[2]

\* the credits of the fallback for expected file names and for a file with
\* an analysis extension
NameAndExtensionCredit ==
    Tenths(Cardinality({f \in created_files : <<f.stem, f.suffix>> \in ExpectedFiles}))
    + (IF HasSuffix(created_files, {".py", ".sql", ".md", ".txt"}) # {} THEN Tenths(2) ELSE 0)

\* C33 (as claimed): without a structured submission the correctness subscore
\* is made of a credit for each expected file name, a credit for a file with
\* an analysis extension and a credit for CSV files that are non-empty and
\* parseable; with a structured submission none of them is applied.
C33_FallbackCredits ==
    CorrectnessScored =>
        /\ analysis_file = "absent" =>
              /\ Get(subscores, "correctness") >= NameAndExtensionCredit
              /\ validate_results(created_files)
                    <=> Get(subscores, "correctness") > NameAndExtensionCredit
        /\ analysis_file # "absent" =>
              Get(subscores, "correctness")
                 = score_correctness(analysis_file, agent_results, ground_truth, {})

\* C34: in a session with a taiga server current_problem is unset or the
\* problem of the first call with an id the module knows; a call with
\* another id than the current one does not resolve and leaves
\* current_problem as it was; a call with an unknown id while none is set
\* does not resolve and leaves it unset; a call with the current id resolves.
C34_OneShotSession ==
    /\ sess_current = sess_first
    /\ sess_calls > 0 =>
          /\ (sess_last.before # "None" /\ sess_last.problem_id # sess_last.before) =>
                (~sess_last.resolved /\ sess_current = sess_last.before)
          /\ (sess_last.before = "None"
                /\ sess_last.problem_id \notin ProblemsOf(sess_tool)) =>
                (~sess_last.resolved /\ sess_current = "None")
          /\ (sess_last.before # "None" /\ sess_last.problem_id = sess_last.before) =>
                (sess_last.resolved /\ sess_current = sess_last.before)
          /\ (sess_last.call = "setup_problem" /\ sess_tool = "math_in_python") =>
                (sess_last.raised <=> ~sess_last.resolved)

\* a call for gcd was refused in a session that factorial had opened
C34_Witness ==
    /\ sess_calls = MaxSessionCalls
    /\ sess_current = "factorial"
    /\ sess_last.problem_id = "gcd"
    /\ ~sess_last.resolved

\* C35 (as claimed): for every max_iterations >= 0 _conversation_loop
\* returns, never raises, and the iterations field of the result is the
\* number of model requests it issued, 0 when max_iterations is 0.
C35_IterationsCountRequests ==
    /\ pc # "raised"
    /\ pc = "returned" => result.iterations = nRequests

\* C36 (as claimed): a result with success = true has as final_response the
\* content of the last assistant turn of the transcript, after a turn without
\* tool calls as well as after the last allowed pass; it is never the content
\* of a turn of tool results.
C36_FinalResponseIsModelTurn ==
    (pc = "returned" /\ result.success) =>
        /\ AssistantTurns(result.messages) # {}
        /\ LET last == CHOOSE i \in AssistantTurns(result.messages) :
                           \A j \in AssistantTurns(result.messages) : j <= i
           IN result.final_response = result.messages[last].content
        /\ Last(result.messages).role = "assistant"

\* the submission without one of its fields
WithoutField(agent, key) == {p \in agent : p[1] # key}

\* C37 (as claimed): removing a field from a submission never gives a higher
\* accuracy, when both comparisons return, nor a higher correctness subscore.
C37_OmissionDoesNotPay ==
    cmpc = "done" =>
        \A key \in Keys(agent_results) :
            LET less == WithoutField(agent_results, key)
                without == compare_results_to_ground_truth(less, ground_truth)
            IN /\ (~comparison.raised /\ ~without.raised)
                     => without.accuracy <= comparison.accuracy
               /\ score_correctness("parsed", less, ground_truth, {})
                     <= score_correctness("parsed", agent_results, ground_truth, {})

\* C38 (as claimed): for every numeric ground-truth value, zero and negative
\* ones included, the comparison returns, the credit of every numerical key
\* is 0, 0.5 or 1, and it is 0 when the agent value is further than 10% of the
\* magnitude of the ground truth from it.
C38_NumericComparisonTotal ==
    cmpc = "done" =>
        /\ ~comparison.raised
        /\ \A key \in {k \in Keys(agent_results) \cap Keys(ground_truth) :
                          k \in {NumericalKeys[i] : i \in DOMAIN NumericalKeys}} :
             LET a == Get(agent_results, key)
                 g == Get(ground_truth, key)
             IN /\ \E credit \in {0, ScoreUnit \div 2, ScoreUnit} :
                      <<key, credit>> \in comparison.credits
                /\ 100 * Abs(a - g) > 10 * Abs(g) => <<key, 0>> \in comparison.credits

\* the results a suite run has produced so far: the one of the problem at
\* hand, once it is built, and the ones already appended
ProducedResults ==
    {suite_results[i] : i \in 1..Len(suite_results)}
        \cup (IF spc \in {"finally", "append"} THEN {eresult} ELSE {})

\* C39: every result of evaluate_agent or run_single_evaluation that is a
\* failure has score 0, no subscores and a non-empty error message, and
\* every one that is a success has no error message and the total of its
\* subscores weighted by the rubric of the problem as its score.
C39_ResultShape ==
    \A r \in ProducedResults :
        IF r.success
        THEN /\ r.error_message = None
             /\ r.score = TotalScore(r.subscores, DefaultRubric)
        ELSE /\ r.score = 0
             /\ r.subscores = {}
             /\ Len(r.error_message) > 0

\* a failure of the agent and a success with unequal subscores, one after
\* the other
C39_Witness ==
    /\ Len(suite_results) = 2
    /\ ~suite_results[1].success
    /\ suite_results[1].error_message = <<"Claude API call failed">>
    /\ suite_results[2].success
    /\ suite_results[2].score = (ScoreUnit * 40) \div 100

\* C40 (as claimed): after a setup_problem that returned False the
\* configurations and the rubrics of the evaluator are the ones it had before
\* the call, and a problem that was not configured before the call is not
\* configured after it, which is what evaluate_agent tests before its early
\* 'not configured' return.
C40_FailedSetupChangesNothing ==
    (life_calls > 0 /\ life_last.call = "setup_problem" /\ life_last.returned = FALSE) =>
        /\ life_configs = life_last.configs
        /\ life_rubrics = life_last.rubrics
        /\ ~WasConfigured => ~Has(life_configs, life_last.id)

====
